---------------------------- MODULE Spec2Model ----------------------------
(***************************************************************************)
(* A model of scripts/detect_6layer_violations.py: the comment stripper,   *)
(* the string-literal stripper, the exception resolver and the rule engine *)
(* of the 6-layer violation scanner.                                       *)
(*                                                                         *)
(* Source lines are TLA+ strings; a character is a string of length one.   *)
(* Python's None is modelled by the empty string "" (both are falsy, and   *)
(* no character is the empty string).  Indices into a line are 0-based, as *)
(* in the source; CharAt converts to the 1-based SubSeq.                   *)
(***************************************************************************)
EXTENDS Integers, Sequences, FiniteSets, TLC

(***************************************************************************)
(* Bounds of the model.                                                    *)
(***************************************************************************)
\* longest line fed to the character-level scan
MaxLen == 5

\* longest line, and most lines, of a file fed to strip_comments_from_lines
MaxFileLineLen == 3

MaxFileLines == 3

\* most lines of a file handed to find_violations_in_file
MaxScanLines == 3

(***************************************************************************)
(* Characters and lines.                                                   *)
(***************************************************************************)
None == ""

DQ == "\""

SQ == "'"

BS == "\\"

\* the characters the scanners tell apart, and one ordinary character
Chars == {DQ, SQ, BS, "/", "*", "a"}

CharAt(s, k) == IF 0 <= k /\ k < Len(s) THEN SubSeq(s, k + 1, k + 1) ELSE None

\* Python's s[a:b] for 0 <= a
Slice(s, a, b) == SubSeq(s, a + 1, b)

RECURSIVE StringsOfLen(_, _)
StringsOfLen(C, n) ==
    IF n = 0 THEN {""}
    ELSE {s \o c : s \in StringsOfLen(C, n - 1), c \in C}

AllLines == UNION {StringsOfLen(Chars, n) : n \in 0..MaxLen}

\* the files of the line-level model: a quote, the comment characters, a letter
FileChars == {SQ, "/", "*", "a"}

FileLines == UNION {StringsOfLen(FileChars, n) : n \in 0..MaxFileLineLen}

Files == UNION {[1..n -> FileLines] : n \in 1..MaxFileLines}

(***************************************************************************)
(* State.                                                                  *)
(*   line, in_multiline_comment : the arguments of the running call of     *)
(*       strip_comments_from_line                                          *)
(*   cs        : its local variables (i, in_string, string_char,           *)
(*               in_multiline, result) and two history fields, mark and    *)
(*               src, that record for every emitted character how it was   *)
(*               emitted and which input index it came from                *)
(*   stripped  : the line returned by strip_comments_from_line             *)
(*   clean     : strip_string_literals_from_line(stripped)                 *)
(*   in_multiline : the block-comment state strip_comments_from_lines      *)
(*               carries from one line to the next                         *)
(*   lines, result : the argument and the result list of                   *)
(*               strip_comments_from_lines                                 *)
(*   file_path, exclude_framework, exclude_tests : the arguments of        *)
(*               find_violations_in_file                                   *)
(*   disk      : the lines of the file at file_path, as readlines gives    *)
(*               them (each with its line terminator)                      *)
(*   lines_without_comments, lines_without_strings, violations,            *)
(*   exclusions, exceptions : locals of find_violations_in_file (lines is  *)
(*               its local of that name too)                               *)
(*   rule_idx  : how many entries of the catalog being iterated are done   *)
(*   args      : what main has parsed and resolved: kind says whether the  *)
(*               path is a directory, a single file or missing; json is    *)
(*               "" without --json, else "ok" or "fail" as the report file *)
(*               can or cannot be written; and the two toggles             *)
(*   swift_files : list(directory.rglob('*.swift')), each file with its    *)
(*               path, its lines and whether it can be read; in the        *)
(*               single-file case, that file                               *)
(*   swift_idx : how many entries of swift_files scan_directory has done   *)
(*   all_violations, all_exclusions, all_exceptions : locals of            *)
(*               scan_directory                                            *)
(*   warned    : the all-files-excluded warning was printed                *)
(*   report    : the three lists handed to print_console_report            *)
(*   exit_status : the status the process ended with, -1 while it runs     *)
(*   pc        : position of the running operation                         *)
(*   translator : the attributes a LocalizationTranslator is built with    *)
(*               (file_format, dry_run, save_interval, mark_as_translated, *)
(*               create_backup) and languages, the --languages argument    *)
(*   catalog, target_languages, stats, last_save_count : its attributes of *)
(*               these names                                               *)
(*   fs        : the files under base_dir: Localizable.xcstrings, the      *)
(*               Localizable.strings of every .lproj directory, and their  *)
(*               backups                                                   *)
(*   work_items, work_idx : the pairs the translation loop iterates over   *)
(*               and how many of them are done                             *)
(*   worker    : the thread _translate_string submitted the provider call  *)
(*               to: "none", "running", "late" (returns after the          *)
(*               timeout) or "stuck" (never returns)                       *)
(*   provider_calls : history, the pairs the provider was called for in    *)
(*               this run                                                  *)
(*   run       : "first", or "again" for a run started after another one   *)
(*               on the same files                                         *)
(*   loaded    : history, the catalog as this run loaded it                *)
(*   previous  : history, "none" in a first run, else whether the run      *)
(*               before ended with a translation for every pair            *)
(*               ("complete") or not ("partial")                           *)
(***************************************************************************)
VARIABLES line, in_multiline_comment, cs, stripped, clean, in_multiline, pc,
          lines, result,
          file_path, exclude_framework, exclude_tests, disk,
          lines_without_comments, lines_without_strings,
          violations, exclusions, exceptions, rule_idx,
          args, swift_files, swift_idx,
          all_violations, all_exclusions, all_exceptions,
          warned, report, exit_status,
          translator, catalog, target_languages, stats, last_save_count,
          fs, work_items, work_idx, worker, provider_calls, run, loaded,
          previous

lexVars == <<line, in_multiline_comment, cs, stripped, clean>>

scanVars == <<file_path, exclude_framework, exclude_tests, disk,
              lines_without_comments, lines_without_strings,
              violations, exclusions, exceptions, rule_idx>>

mainVars == <<args, swift_files, swift_idx,
              all_violations, all_exclusions, all_exceptions,
              warned, report, exit_status>>

transVars == <<translator, catalog, target_languages, stats, last_save_count,
               fs, work_items, work_idx, worker, provider_calls, run, loaded,
               previous>>

vars == <<lexVars, in_multiline, pc, lines, result, scanVars, mainVars,
          transVars>>

\* what the character-level pipeline leaves alone
notLexVars == <<lines, result, scanVars, mainVars, transVars>>

\* what strip_comments_from_lines leaves alone
notLinesVars == <<lexVars, scanVars, mainVars, transVars>>

\* what find_violations_in_file leaves alone
notScanVars == <<lexVars, in_multiline, result, mainVars, transVars>>

(***************************************************************************)
(* strip_comments_from_line: the frame at entry, and one iteration of the  *)
(* while loop.  Branch names the branch of the loop body taken at a frame; *)
(* the order of the tests is the order of the source.                      *)
(***************************************************************************)
\* in_string initialised from the comment state handed in
EntryFrameInString(in_ml) ==
    [i |-> 0, in_string |-> in_ml, string_char |-> None,
     in_multiline |-> in_ml, result |-> "", mark |-> "", src |-> <<>>]

EntryFrame(in_ml) ==
    [i |-> 0, in_string |-> FALSE, string_char |-> None,
     in_multiline |-> in_ml, result |-> "", mark |-> "", src |-> <<>>]

\* the comment tests placed before the string tests
BranchCommentsFirst(l, f) ==
    LET char == CharAt(l, f.i)
        next_char == CharAt(l, f.i + 1)
    IN  IF ~f.in_multiline /\ char = "/" /\ next_char = "*" THEN "open_block"
        ELSE IF ~f.in_multiline /\ char = "/" /\ next_char = "/" THEN "line_comment"
        ELSE IF ~f.in_string /\ (char = DQ \/ char = SQ) THEN "open_string"
        ELSE IF f.in_string THEN
            IF char = BS /\ next_char # None THEN "escape"
            ELSE IF char = f.string_char THEN "close_string"
            ELSE "string_char"
        ELSE IF f.in_multiline /\ char = "*" /\ next_char = "/" THEN "close_block"
        ELSE IF f.in_multiline THEN "skip"
        ELSE "keep"

Branch(l, f) ==
    LET char == CharAt(l, f.i)
        next_char == CharAt(l, f.i + 1)
    IN  IF ~f.in_string /\ (char = DQ \/ char = SQ) THEN "open_string"
        ELSE IF f.in_string THEN
            IF char = BS /\ next_char # None THEN "escape"
            ELSE IF char = f.string_char THEN "close_string"
            ELSE "string_char"
        ELSE IF ~f.in_multiline /\ ~f.in_string /\ char = "/" /\ next_char = "*"
            THEN "open_block"
        ELSE IF f.in_multiline /\ char = "*" /\ next_char = "/" THEN "close_block"
        ELSE IF ~f.in_multiline /\ ~f.in_string /\ char = "/" /\ next_char = "/"
            THEN "line_comment"
        ELSE IF f.in_multiline THEN "skip"
        ELSE "keep"

\* result.append(c) for a character taken from input index k, marked m
Emit(f, c, m, k) ==
    [f EXCEPT !.result = @ \o c, !.mark = @ \o m, !.src = Append(@, k)]

OpenStringStep(l, f) ==
    [Emit(f, CharAt(l, f.i), "O", f.i) EXCEPT
        !.in_string = TRUE, !.string_char = CharAt(l, f.i), !.i = @ + 1]

EscapeStep(l, f) ==
    [Emit(Emit(f, CharAt(l, f.i), "S", f.i), CharAt(l, f.i + 1), "S", f.i + 1)
        EXCEPT !.i = @ + 2]

CloseStringStep(l, f) ==
    [Emit(f, CharAt(l, f.i), "E", f.i) EXCEPT
        !.in_string = FALSE, !.string_char = None, !.i = @ + 1]

StringCharStep(l, f) == [Emit(f, CharAt(l, f.i), "S", f.i) EXCEPT !.i = @ + 1]

OpenBlockStep(l, f) == [f EXCEPT !.in_multiline = TRUE, !.i = @ + 2]

CloseBlockStep(l, f) == [f EXCEPT !.in_multiline = FALSE, !.i = @ + 2]

\* the character of a block comment kept instead of skipped
SkipStepKeeps(l, f) == [Emit(f, CharAt(l, f.i), "C", f.i) EXCEPT !.i = @ + 1]

SkipStep(l, f) == [f EXCEPT !.i = @ + 1]

KeepStep(l, f) == [Emit(f, CharAt(l, f.i), "C", f.i) EXCEPT !.i = @ + 1]

StepFrame(l, f) ==
    LET b == Branch(l, f)
    IN  CASE b = "open_string"  -> OpenStringStep(l, f)
          [] b = "escape"       -> EscapeStep(l, f)
          [] b = "close_string" -> CloseStringStep(l, f)
          [] b = "string_char"  -> StringCharStep(l, f)
          [] b = "open_block"   -> OpenBlockStep(l, f)
          [] b = "close_block"  -> CloseBlockStep(l, f)
          [] b = "skip"         -> SkipStep(l, f)
          [] b = "keep"         -> KeepStep(l, f)

\* the loop runs while i < len(line) and stops at the break of a line comment
Running(l, f) == f.i < Len(l) /\ Branch(l, f) # "line_comment"

RECURSIVE RunFrame(_, _)
RunFrame(l, f) == IF Running(l, f) THEN RunFrame(l, StepFrame(l, f)) ELSE f

\* the frame at the return statement
CommentScan(l, in_ml) == RunFrame(l, EntryFrame(in_ml))

\* the returned pair (''.join(result), in_multiline)
strip_comments_from_line(l, in_ml) ==
    LET f == CommentScan(l, in_ml) IN <<f.result, f.in_multiline>>


(***************************************************************************)
(* strip_string_literals_from_line.  The placeholder is the same double-   *)
(* quoted text for both kinds of literal.  The inner loop tests next_char  *)
(* as the outer loop computed it (the character after the opening quote)   *)
(* until the first escape refreshes it.  mark records, for every input     *)
(* character, whether it was copied ("C") or belonged to a literal         *)
(* ("O" opening quote, "S" content, "E" closing quote).                    *)
(***************************************************************************)
PLACEHOLDER == "\"STRING_LITERAL\""

\* the inner loop without its escape test
RECURSIVE SkipLiteralNoEscape(_, _, _, _, _)
SkipLiteralNoEscape(l, i, next_char, string_char, mark) ==
    IF i >= Len(l) THEN [i |-> i, mark |-> mark]
    ELSE IF CharAt(l, i) = string_char THEN [i |-> i + 1, mark |-> mark \o "E"]
    ELSE SkipLiteralNoEscape(l, i + 1, next_char, string_char, mark \o "S")

RECURSIVE SkipLiteral(_, _, _, _, _)
SkipLiteral(l, i, next_char, string_char, mark) ==
    IF i >= Len(l) THEN [i |-> i, mark |-> mark]
    ELSE LET char == CharAt(l, i)
         IN  IF char = BS /\ next_char # None
                 THEN SkipLiteral(l, i + 2, CharAt(l, i + 3), string_char,
                                  mark \o (IF i + 1 < Len(l) THEN "SS" ELSE "S"))
             ELSE IF char = string_char
                 THEN [i |-> i + 1, mark |-> mark \o "E"]
             ELSE SkipLiteral(l, i + 1, next_char, string_char, mark \o "S")

\* only double-quoted literals are masked
RECURSIVE StringScanFromDoubleOnly(_, _)
StringScanFromDoubleOnly(l, f) ==
    IF f.i >= Len(l) THEN f
    ELSE LET char == CharAt(l, f.i)
             next_char == CharAt(l, f.i + 1)
         IN  IF char = DQ
                 THEN LET r == SkipLiteral(l, f.i + 1, next_char, char, f.mark \o "O")
                      IN  StringScanFromDoubleOnly(l, [i |-> r.i,
                              result |-> f.result \o PLACEHOLDER, mark |-> r.mark])
             ELSE StringScanFromDoubleOnly(l, [i |-> f.i + 1,
                      result |-> f.result \o char, mark |-> f.mark \o "C"])

RECURSIVE StringScanFrom(_, _)
StringScanFrom(l, f) ==
    IF f.i >= Len(l) THEN f
    ELSE LET char == CharAt(l, f.i)
             next_char == CharAt(l, f.i + 1)
         IN  IF char = DQ \/ char = SQ
                 THEN LET r == SkipLiteral(l, f.i + 1, next_char, char, f.mark \o "O")
                      IN  StringScanFrom(l, [i |-> r.i,
                                             result |-> f.result \o PLACEHOLDER,
                                             mark |-> r.mark])
             ELSE StringScanFrom(l, [i |-> f.i + 1,
                                     result |-> f.result \o char,
                                     mark |-> f.mark \o "C"])

StringScan(l) == StringScanFrom(l, [i |-> 0, result |-> "", mark |-> ""])

strip_string_literals_from_line(l) == StringScan(l).result

(***************************************************************************)
(* The per-line pipeline of find_violations_in_file: the loop of           *)
(* strip_comments_from_lines hands each line, with the block-comment state *)
(* left by the line before, to strip_comments_from_line; the returned line *)
(* then goes through strip_string_literals_from_line.  The lines of the    *)
(* file are supplied by the environment, one at a time.                    *)
(***************************************************************************)
LexIdle ==
    /\ line = ""
    /\ in_multiline_comment = FALSE
    /\ cs = EntryFrame(FALSE)
    /\ stripped = ""
    /\ clean = ""

ScanIdle ==
    /\ file_path = ""
    /\ exclude_framework = TRUE
    /\ exclude_tests = FALSE
    /\ disk = <<>>
    /\ lines_without_comments = <<>>
    /\ lines_without_strings = <<>>
    /\ violations = <<>>
    /\ exclusions = <<>>
    /\ exceptions = <<>>
    /\ rule_idx = 0

MainIdle ==
    /\ args = [kind |-> "", json |-> "",
               exclude_framework |-> TRUE, exclude_tests |-> FALSE]
    /\ swift_files = <<>>
    /\ swift_idx = 0
    /\ all_violations = <<>>
    /\ all_exclusions = <<>>
    /\ all_exceptions = <<>>
    /\ warned = FALSE
    /\ report = <<>>
    /\ exit_status = -1

\* no LocalizationTranslator has been built
TransIdle ==
    /\ translator = [file_format |-> "", dry_run |-> FALSE, save_interval |-> 50,
                     mark_as_translated |-> FALSE, create_backup |-> FALSE,
                     languages |-> {}]
    /\ catalog = <<>>
    /\ target_languages = {}
    /\ stats = [total_strings |-> 0, translated |-> 0, skipped |-> 0, errors |-> 0]
    /\ last_save_count = 0
    /\ fs = <<>>
    /\ work_items = <<>>
    /\ work_idx = 0
    /\ worker = "none"
    /\ provider_calls = {}
    /\ run = "first"
    /\ loaded = <<>>
    /\ previous = "none"

Init ==
    /\ LexIdle
    /\ MainIdle
    /\ TransIdle
    /\ ScanIdle
    /\ in_multiline = FALSE
    /\ pc = "idle"
    /\ lines = <<>>
    /\ result = <<>>

Scanning(b) == pc = "scan" /\ cs.i < Len(line) /\ Branch(line, cs) = b

OpenString ==
    /\ Scanning("open_string")
    /\ cs' = OpenStringStep(line, cs)
    /\ UNCHANGED <<line, in_multiline_comment, stripped, clean, in_multiline, pc>>
    /\ UNCHANGED notLexVars

Escape ==
    /\ Scanning("escape")
    /\ cs' = EscapeStep(line, cs)
    /\ UNCHANGED <<line, in_multiline_comment, stripped, clean, in_multiline, pc>>
    /\ UNCHANGED notLexVars

CloseString ==
    /\ Scanning("close_string")
    /\ cs' = CloseStringStep(line, cs)
    /\ UNCHANGED <<line, in_multiline_comment, stripped, clean, in_multiline, pc>>
    /\ UNCHANGED notLexVars

StringChar ==
    /\ Scanning("string_char")
    /\ cs' = StringCharStep(line, cs)
    /\ UNCHANGED <<line, in_multiline_comment, stripped, clean, in_multiline, pc>>
    /\ UNCHANGED notLexVars

OpenBlock ==
    /\ Scanning("open_block")
    /\ cs' = OpenBlockStep(line, cs)
    /\ UNCHANGED <<line, in_multiline_comment, stripped, clean, in_multiline, pc>>
    /\ UNCHANGED notLexVars

CloseBlock ==
    /\ Scanning("close_block")
    /\ cs' = CloseBlockStep(line, cs)
    /\ UNCHANGED <<line, in_multiline_comment, stripped, clean, in_multiline, pc>>
    /\ UNCHANGED notLexVars

SkipChar ==
    /\ Scanning("skip")
    /\ cs' = SkipStep(line, cs)
    /\ UNCHANGED <<line, in_multiline_comment, stripped, clean, in_multiline, pc>>
    /\ UNCHANGED notLexVars

KeepChar ==
    /\ Scanning("keep")
    /\ cs' = KeepStep(line, cs)
    /\ UNCHANGED <<line, in_multiline_comment, stripped, clean, in_multiline, pc>>
    /\ UNCHANGED notLexVars

\* the loop ends (end of line, or break at a line comment) and the call returns
ReturnStripped ==
    /\ pc = "scan"
    /\ ~Running(line, cs)
    /\ stripped' = cs.result
    /\ in_multiline' = cs.in_multiline
    /\ pc' = "stripped"
    /\ UNCHANGED <<line, in_multiline_comment, cs, clean>>
    /\ UNCHANGED notLexVars

MaskStrings ==
    /\ pc = "stripped"
    /\ clean' = strip_string_literals_from_line(stripped)
    /\ pc' = "masked"
    /\ UNCHANGED <<line, in_multiline_comment, cs, stripped, in_multiline>>
    /\ UNCHANGED notLexVars

\* the iteration ends: its locals are dropped, only in_multiline is carried
EndLine ==
    /\ pc = "masked"
    /\ line' = ""
    /\ in_multiline_comment' = FALSE
    /\ cs' = EntryFrame(FALSE)
    /\ stripped' = ""
    /\ clean' = ""
    /\ pc' = "idle"
    /\ UNCHANGED in_multiline
    /\ UNCHANGED notLexVars

\* the next iteration of "for line in lines" calls strip_comments_from_line
NextLine ==
    /\ pc = "idle"
    /\ \E l \in AllLines :
        /\ line' = l
        /\ in_multiline_comment' = in_multiline
        /\ cs' = EntryFrame(in_multiline)
    /\ pc' = "scan"
    /\ UNCHANGED <<stripped, clean, in_multiline>>
    /\ UNCHANGED notLexVars

Next ==
    \/ OpenString
    \/ Escape
    \/ CloseString
    \/ StringChar
    \/ OpenBlock
    \/ CloseBlock
    \/ SkipChar
    \/ KeepChar
    \/ ReturnStripped
    \/ MaskStrings
    \/ EndLine
    \/ NextLine

Spec == Init /\ [][Next]_vars

(***************************************************************************)
(* strip_comments_from_lines on a whole file: one call of                  *)
(* strip_comments_from_line per line, in order, the block-comment state    *)
(* threaded through.                                                       *)
(***************************************************************************)
InitLines ==
    /\ LexIdle
    /\ TransIdle
    /\ MainIdle
    /\ ScanIdle
    /\ lines \in Files
    /\ result = <<>>
    /\ in_multiline = FALSE
    /\ pc = "loop"

StripLine ==
    /\ pc = "loop"
    /\ Len(result) < Len(lines)
    /\ LET r == strip_comments_from_line(lines[Len(result) + 1], in_multiline)
       IN  /\ result' = Append(result, r[1])
           /\ in_multiline' = r[2]
    /\ UNCHANGED <<lines, pc>>
    /\ UNCHANGED notLinesVars

ReturnLines ==
    /\ pc = "loop"
    /\ Len(result) = Len(lines)
    /\ pc' = "returned"
    /\ UNCHANGED <<lines, result, in_multiline>>
    /\ UNCHANGED notLinesVars

NextLines ==
    \/ StripLine
    \/ ReturnLines

SpecLines == InitLines /\ [][NextLines]_vars

(***************************************************************************)
(* Python's str methods and the regular expressions of the catalog.        *)
(***************************************************************************)
IsSpace(c) == c \in {" ", "\t", "\n", "\r", "\f"}

WordChars ==
    {"a", "b", "c", "d", "e", "f", "g", "h", "i", "j", "k", "l", "m",
     "n", "o", "p", "q", "r", "s", "t", "u", "v", "w", "x", "y", "z",
     "A", "B", "C", "D", "E", "F", "G", "H", "I", "J", "K", "L", "M",
     "N", "O", "P", "Q", "R", "S", "T", "U", "V", "W", "X", "Y", "Z",
     "0", "1", "2", "3", "4", "5", "6", "7", "8", "9", "_"}

IsWord(c) == c \in WordChars

RECURSIVE LStrip(_)
LStrip(s) == IF Len(s) > 0 /\ IsSpace(CharAt(s, 0)) THEN LStrip(Tail(s)) ELSE s

RECURSIVE RStrip(_)
RStrip(s) ==
    IF Len(s) > 0 /\ IsSpace(CharAt(s, Len(s) - 1))
        THEN RStrip(Slice(s, 0, Len(s) - 1))
    ELSE s

Strip(s) == RStrip(LStrip(s))

StartsWith(s, prefix) == Len(prefix) <= Len(s) /\ Slice(s, 0, Len(prefix)) = prefix

\* s.find(sub, k): the least index >= k where sub occurs, or -1
RECURSIVE Find(_, _, _)
Find(s, sub, k) ==
    IF k + Len(sub) > Len(s) THEN -1
    ELSE IF Slice(s, k, k + Len(sub)) = sub THEN k
    ELSE Find(s, sub, k + 1)

\* sub in s
Contains(s, sub) == Find(s, sub, 0) >= 0

\* s.split(sep, 1)[1], for sep in s
AfterFirst(s, sep) == Slice(s, Find(s, sep, 0) + Len(sep), Len(s))

(***************************************************************************)
(* A pattern of the catalog is a sequence of atoms: WB is \b, WS is \s*,   *)
(* any other atom is literal text.  In every pattern of the catalog \s* is *)
(* followed by a literal that starts with a non-space character, so the    *)
(* greedy match of \s* is its only match.                                  *)
(***************************************************************************)
WB == "\\b"

WS == "\\s*"

AtBoundary(s, k) == IsWord(CharAt(s, k - 1)) # IsWord(CharAt(s, k))

RECURSIVE SkipSpaces(_, _)
SkipSpaces(s, k) == IF IsSpace(CharAt(s, k)) THEN SkipSpaces(s, k + 1) ELSE k

\* the end of the match of atoms a.. of pat that starts at index k of s, or -1
RECURSIVE MatchEnd(_, _, _, _)
MatchEnd(pat, a, s, k) ==
    IF a > Len(pat) THEN k
    ELSE IF pat[a] = WB THEN
        IF AtBoundary(s, k) THEN MatchEnd(pat, a + 1, s, k) ELSE -1
    ELSE IF pat[a] = WS THEN MatchEnd(pat, a + 1, s, SkipSpaces(s, k))
    ELSE IF k + Len(pat[a]) <= Len(s) /\ Slice(s, k, k + Len(pat[a])) = pat[a]
        THEN MatchEnd(pat, a + 1, s, k + Len(pat[a]))
    ELSE -1

\* the (start, end) of the leftmost match at or after k, or (-1, -1)
RECURSIVE SearchFrom(_, _, _)
SearchFrom(pat, s, k) ==
    IF k > Len(s) THEN <<-1, -1>>
    ELSE IF MatchEnd(pat, 1, s, k) >= 0 THEN <<k, MatchEnd(pat, 1, s, k)>>
    ELSE SearchFrom(pat, s, k + 1)

\* re.search(pattern, s) is not None
re_search(pat, s) == SearchFrom(pat, s, 0)[1] >= 0

\* match.start() of re.search(pattern, s)
re_search_start(pat, s) == SearchFrom(pat, s, 0)[1]

\* [m.start() for m in re.finditer(pattern, s)]: successive matches, no overlap
RECURSIVE FindIterFrom(_, _, _, _)
FindIterFrom(pat, s, k, acc) ==
    LET m == SearchFrom(pat, s, k)
    IN  IF m[1] < 0 THEN acc
        ELSE FindIterFrom(pat, s, IF m[2] > m[1] THEN m[2] ELSE m[2] + 1,
                          Append(acc, m[1]))

\* only the first match is returned
re_finditer_first_only(pat, s) ==
    IF SearchFrom(pat, s, 0)[1] < 0 THEN <<>> ELSE <<SearchFrom(pat, s, 0)[1]>>

re_finditer(pat, s) == FindIterFrom(pat, s, 0, <<>>)

(***************************************************************************)
(* The rule catalog.  The source holds 39 platform-type entries, all of    *)
(* the shape \bName\b, two of them with an exclude pattern, and 7 view     *)
(* entries, all with exclude patterns and exclude_in_framework; the model  *)
(* keeps one platform entry of each shape and one view entry.  No entry of *)
(* the source sets requires_context or context_pattern.                    *)
(***************************************************************************)
PLATFORM_TYPE_VIOLATIONS ==
    << [name |-> "UIColor",
        replacement |-> "Color.platform*",
        hint |-> "Use Color.platformBackground, Color.platformLabel, etc. instead of UIColor",
        priority |-> 1,
        pattern |-> <<WB, "UIColor", WB>>,
        exclude_patterns |-> <<>>],
       [name |-> "UIImage",
        replacement |-> "PlatformImage",
        hint |-> "Use PlatformImage instead of UIImage for cross-platform compatibility",
        priority |-> 1,
        pattern |-> <<WB, "UIImage", WB>>,
        exclude_patterns |-> << <<"PlatformImage", WS, "(", WS, "uiImage", WS, ":">> >>] >>

VIEW_VIOLATIONS ==
    << [name |-> "TextField without platform replacement",
        replacement |-> "platformTextField() or platformPresentFormData_L1()",
        hint |-> "Use platformTextField() (drop-in replacement) or platformPresentFormData_L1() instead of TextField",
        priority |-> 2,
        pattern |-> <<WB, "TextField", WS, "(">>,
        exclude_patterns |-> << <<"platformTextField", WS, "(">>,
                                <<"platformPresentFormData_L1", WS, "(">> >>,
        exclude_in_framework |-> TRUE,
        requires_context |-> FALSE,
        context_pattern |-> <<>>] >>

(***************************************************************************)
(* strip_comments_from_lines and strip_string_literals_from_lines.         *)
(***************************************************************************)
RECURSIVE StripCommentsFrom(_, _, _, _)
StripCommentsFrom(ls, n, in_ml, acc) ==
    IF n > Len(ls) THEN acc
    ELSE LET r == strip_comments_from_line(ls[n], in_ml)
         IN  StripCommentsFrom(ls, n + 1, r[2], Append(acc, r[1]))

strip_comments_from_lines(ls) == StripCommentsFrom(ls, 1, FALSE, <<>>)

strip_string_literals_from_lines(ls) ==
    [n \in 1..Len(ls) |-> strip_string_literals_from_line(ls[n])]

(***************************************************************************)
(* get_exception_reason.                                                   *)
(***************************************************************************)
MARKER == "// 6LAYER_ALLOW:"

\* the preceding line is searched for the marker anywhere, not at its start
get_exception_reason_anywhere(ls, line_idx) ==
    IF line_idx < 0 \/ line_idx >= Len(ls) THEN ""
    ELSE LET current_line == Strip(ls[line_idx + 1])
             prev_line == IF line_idx > 0 THEN Strip(ls[line_idx]) ELSE ""
         IN  IF Contains(current_line, MARKER)
                 THEN Strip(AfterFirst(current_line, MARKER))
             ELSE IF Contains(prev_line, MARKER)
                 THEN Strip(AfterFirst(prev_line, MARKER))
             ELSE ""

\* a marker without a reason is given a reason
get_exception_reason_defaulted(ls, line_idx) ==
    IF line_idx < 0 \/ line_idx >= Len(ls) THEN ""
    ELSE LET current_line == Strip(ls[line_idx + 1])
             prev_line == IF line_idx > 0 THEN Strip(ls[line_idx]) ELSE ""
             reason(l) == IF Strip(AfterFirst(l, MARKER)) = "" THEN "unspecified"
                          ELSE Strip(AfterFirst(l, MARKER))
         IN  IF Contains(current_line, MARKER) THEN reason(current_line)
             ELSE IF StartsWith(prev_line, MARKER) THEN reason(prev_line)
             ELSE ""

get_exception_reason(ls, line_idx) ==
    IF line_idx < 0 \/ line_idx >= Len(ls) THEN ""
    ELSE LET current_line == Strip(ls[line_idx + 1])
             prev_line == IF line_idx > 0 THEN Strip(ls[line_idx]) ELSE ""
         IN  IF Contains(current_line, MARKER)
                 THEN Strip(AfterFirst(current_line, MARKER))
             ELSE IF StartsWith(prev_line, MARKER)
                 THEN Strip(AfterFirst(prev_line, MARKER))
             ELSE ""

(***************************************************************************)
(* is_app_code_with_reason.  Suffix is pathlib's Path.suffix.              *)
(***************************************************************************)
RECURSIVE LastIndexOf(_, _, _)
LastIndexOf(s, c, k) ==
    IF k < 0 THEN -1 ELSE IF CharAt(s, k) = c THEN k ELSE LastIndexOf(s, c, k - 1)

PathName(path) == Slice(path, LastIndexOf(path, "/", Len(path) - 1) + 1, Len(path))

Suffix(path) ==
    LET name == PathName(path)
        dot == LastIndexOf(name, ".", Len(name) - 1)
    IN  IF 0 < dot /\ dot < Len(name) - 1 THEN Slice(name, dot, Len(name)) ELSE ""

\* the extension is tested first
is_app_code_with_reason_suffix_first(path_str, excl_framework, excl_tests) ==
    IF Suffix(path_str) # ".swift" THEN <<FALSE, "not a Swift file">>
    ELSE IF Contains(path_str, ".build") THEN <<FALSE, "build directory">>
    ELSE IF Contains(path_str, "DerivedData") THEN <<FALSE, "DerivedData directory">>
    ELSE IF Contains(path_str, "Pods/") THEN <<FALSE, "Pods directory">>
    ELSE IF Contains(path_str, "Carthage/") THEN <<FALSE, "Carthage directory">>
    ELSE IF Contains(path_str, ".swiftpm/")
        THEN <<FALSE, "Swift Package Manager directory">>
    ELSE IF excl_framework /\ Contains(path_str, "Framework/")
        THEN <<FALSE, "framework code">>
    ELSE IF excl_framework /\ Contains(path_str, "scripts/")
        THEN <<FALSE, "script file">>
    ELSE IF excl_tests /\ Contains(path_str, "Development/Tests/")
        THEN <<FALSE, "test code">>
    ELSE <<TRUE, "">>

\* the toggled directories are tested before the build and dependency ones
is_app_code_with_reason_toggles_first(path_str, excl_framework, excl_tests) ==
    IF excl_framework /\ Contains(path_str, "Framework/")
        THEN <<FALSE, "framework code">>
    ELSE IF excl_framework /\ Contains(path_str, "scripts/")
        THEN <<FALSE, "script file">>
    ELSE IF excl_tests /\ Contains(path_str, "Development/Tests/")
        THEN <<FALSE, "test code">>
    ELSE IF Contains(path_str, ".build") THEN <<FALSE, "build directory">>
    ELSE IF Contains(path_str, "DerivedData") THEN <<FALSE, "DerivedData directory">>
    ELSE IF Contains(path_str, "Pods/") THEN <<FALSE, "Pods directory">>
    ELSE IF Contains(path_str, "Carthage/") THEN <<FALSE, "Carthage directory">>
    ELSE IF Contains(path_str, ".swiftpm/")
        THEN <<FALSE, "Swift Package Manager directory">>
    ELSE IF Suffix(path_str) # ".swift" THEN <<FALSE, "not a Swift file">>
    ELSE <<TRUE, "">>

\* the script directories are excluded whatever the toggle
is_app_code_with_reason_scripts_ungated(path_str, excl_framework, excl_tests) ==
    IF Contains(path_str, ".build") THEN <<FALSE, "build directory">>
    ELSE IF Contains(path_str, "DerivedData") THEN <<FALSE, "DerivedData directory">>
    ELSE IF Contains(path_str, "Pods/") THEN <<FALSE, "Pods directory">>
    ELSE IF Contains(path_str, "Carthage/") THEN <<FALSE, "Carthage directory">>
    ELSE IF Contains(path_str, ".swiftpm/")
        THEN <<FALSE, "Swift Package Manager directory">>
    ELSE IF excl_framework /\ Contains(path_str, "Framework/")
        THEN <<FALSE, "framework code">>
    ELSE IF Contains(path_str, "scripts/") THEN <<FALSE, "script file">>
    ELSE IF excl_tests /\ Contains(path_str, "Development/Tests/")
        THEN <<FALSE, "test code">>
    ELSE IF Suffix(path_str) # ".swift" THEN <<FALSE, "not a Swift file">>
    ELSE <<TRUE, "">>

is_app_code_with_reason(path_str, excl_framework, excl_tests) ==
    IF Contains(path_str, ".build") \/ Contains(path_str, ".build-clean")
        THEN <<FALSE, "build directory">>
    ELSE IF Contains(path_str, "DerivedData") THEN <<FALSE, "DerivedData directory">>
    ELSE IF Contains(path_str, "Pods/") THEN <<FALSE, "Pods directory">>
    ELSE IF Contains(path_str, "Carthage/") THEN <<FALSE, "Carthage directory">>
    ELSE IF Contains(path_str, ".swiftpm/")
        THEN <<FALSE, "Swift Package Manager directory">>
    ELSE IF excl_framework /\ Contains(path_str, "Framework/")
        THEN <<FALSE, "framework code">>
    ELSE IF excl_framework /\ Contains(path_str, "Development/scripts/")
        THEN <<FALSE, "script file">>
    ELSE IF excl_framework /\ Contains(path_str, "scripts/")
        THEN <<FALSE, "script file">>
    ELSE IF excl_tests /\ Contains(path_str, "Development/Tests/")
        THEN <<FALSE, "test code">>
    ELSE IF Suffix(path_str) # ".swift" THEN <<FALSE, "not a Swift file">>
    ELSE <<TRUE, "">>

(***************************************************************************)
(* find_violations_in_file.  The records hold the fields of the source's   *)
(* dataclasses.                                                            *)
(***************************************************************************)
Violation(path, line_num, original_line, rule, column) ==
    [file_path |-> path, line_number |-> line_num,
     line_content |-> RStrip(original_line), violation_type |-> rule.name,
     replacement |-> rule.replacement, hint |-> rule.hint,
     priority |-> rule.priority, column |-> column]

AllowedException(path, line_num, original_line, rule, reason) ==
    [file_path |-> path, line_number |-> line_num,
     line_content |-> RStrip(original_line), violation_type |-> rule.name,
     reason |-> reason]

Exclusion(path, reason) == [file_path |-> path, reason |-> reason]

\* no exclude pattern is ever consulted
ShouldExcludeNever(rule, stripped_line) == FALSE

\* some exclude pattern of the rule matches the clean line
ShouldExclude(rule, stripped_line) ==
    \E e \in 1..Len(rule.exclude_patterns) :
        re_search(rule.exclude_patterns[e], stripped_line)

\* the context window of a view rule: lines_without_comments[start:end], joined
RECURSIVE JoinLines(_, _, _)
JoinLines(ls, a, b) == IF a > b THEN "" ELSE ls[a] \o JoinLines(ls, a + 1, b)

Max(a, b) == IF a >= b THEN a ELSE b

Min(a, b) == IF a <= b THEN a ELSE b

ContextFound(rule, lwc, line_num) ==
    LET start == Max(0, line_num - 10)
        end == Min(Len(lwc), line_num + 10)
    IN  re_search(rule.context_pattern, JoinLines(lwc, start + 1, end))

\* one iteration of the line loop of a platform rule; acc holds the two lists
PlatformLine(rule, path, ls, lws, line_num, acc) ==
    LET original_line == ls[line_num]
        stripped_line == lws[line_num]
        exception_reason == get_exception_reason(ls, line_num - 1)
        matches == re_finditer(rule.pattern, stripped_line)
    IN  IF ~re_search(rule.pattern, stripped_line) THEN acc
        ELSE IF exception_reason # "" THEN
            [acc EXCEPT !.exceptions =
                Append(@, AllowedException(path, line_num, original_line, rule,
                                           exception_reason))]
        ELSE IF ShouldExclude(rule, stripped_line) THEN acc
        ELSE [acc EXCEPT !.violations =
                @ \o [m \in 1..Len(matches) |->
                        Violation(path, line_num, original_line, rule,
                                  matches[m] + 1)]]

\* one iteration of the line loop of a view rule
ViewLine(rule, path, ls, lwc, lws, line_num, acc) ==
    LET original_line == ls[line_num]
        stripped_line == lws[line_num]
        exception_reason == get_exception_reason(ls, line_num - 1)
    IN  IF ~re_search(rule.pattern, stripped_line) THEN acc
        ELSE IF exception_reason # "" THEN
            [acc EXCEPT !.exceptions =
                Append(@, AllowedException(path, line_num, original_line, rule,
                                           exception_reason))]
        ELSE IF ShouldExclude(rule, stripped_line) THEN acc
        ELSE IF rule.requires_context /\ rule.context_pattern # <<>>
                /\ ~ContextFound(rule, lwc, line_num) THEN acc
        ELSE [acc EXCEPT !.violations =
                Append(@, Violation(path, line_num, original_line, rule,
                                    re_search_start(rule.pattern, stripped_line) + 1))]

RECURSIVE PlatformLinesFrom(_, _, _, _, _, _)
PlatformLinesFrom(rule, path, ls, lws, line_num, acc) ==
    IF line_num > Len(ls) THEN acc
    ELSE PlatformLinesFrom(rule, path, ls, lws, line_num + 1,
                           PlatformLine(rule, path, ls, lws, line_num, acc))

RECURSIVE ViewLinesFrom(_, _, _, _, _, _, _)
ViewLinesFrom(rule, path, ls, lwc, lws, line_num, acc) ==
    IF line_num > Len(ls) THEN acc
    ELSE ViewLinesFrom(rule, path, ls, lwc, lws, line_num + 1,
                       ViewLine(rule, path, ls, lwc, lws, line_num, acc))

\* the library skip is never taken
SkipsInFrameworkNever(rule, path) == FALSE

\* the test before the line loop of a view rule
SkipsInFramework(rule, path) ==
    rule.exclude_in_framework /\ Contains(path, "Framework/")

(***************************************************************************)
(* The files handed to find_violations_in_file: every sequence of up to    *)
(* MaxScanLines of the lines below, under each path and pair of toggles.   *)
(***************************************************************************)
ScanLines ==
    {"UIColor.red\n",
     "  // 6LAYER_ALLOW: old\n",
     "UIColor.red // 6LAYER_ALLOW:  \n",
     "// 6LAYER_ALLOW:\n",
     "f(\"a\\\"UIColor\", 'UIImage', \"TextField(\n",
     "TextField(UIColor) // 6LAYER_ALLOW: ok\n",
     "TextField(PlatformImage(uiImage: UIImage()))\n"}

ScanFiles == UNION {[1..n -> ScanLines] : n \in 1..MaxScanLines}

\* (path, exclude_framework, exclude_tests): an application file under the
\* default toggles, a library file excluded (the default) and scanned
\* (--include-framework), a file of a dependency directory
ScanConfigs ==
    {<<"App/a.swift", TRUE, FALSE>>,
     <<"Framework/a.swift", TRUE, FALSE>>, <<"Framework/a.swift", FALSE, FALSE>>,
     <<"Pods/a.swift", FALSE, TRUE>>}

InitScan ==
    /\ LexIdle
    /\ TransIdle
    /\ MainIdle
    /\ in_multiline = FALSE
    /\ result = <<>>
    /\ \E c \in ScanConfigs :
        /\ file_path = c[1]
        /\ exclude_framework = c[2]
        /\ exclude_tests = c[3]
    /\ disk \in ScanFiles
    /\ lines = <<>>
    /\ lines_without_comments = <<>>
    /\ lines_without_strings = <<>>
    /\ violations = <<>>
    /\ exclusions = <<>>
    /\ exceptions = <<>>
    /\ rule_idx = 0
    /\ pc = "classify"

\* the file is out of scope: one Exclusion, and the call returns
Exclude ==
    /\ pc = "classify"
    /\ ~is_app_code_with_reason(file_path, exclude_framework, exclude_tests)[1]
    /\ exclusions' = Append(exclusions,
           Exclusion(file_path,
               is_app_code_with_reason(file_path, exclude_framework, exclude_tests)[2]))
    /\ pc' = "done"
    /\ UNCHANGED <<file_path, exclude_framework, exclude_tests, disk, lines,
                   lines_without_comments, lines_without_strings,
                   violations, exceptions, rule_idx>>
    /\ UNCHANGED notScanVars

\* the file is read and both clean views are built
ReadFile ==
    /\ pc = "classify"
    /\ is_app_code_with_reason(file_path, exclude_framework, exclude_tests)[1]
    /\ lines' = disk
    /\ lines_without_comments' = strip_comments_from_lines(disk)
    /\ lines_without_strings' =
           strip_string_literals_from_lines(lines_without_comments')
    /\ pc' = "platform"
    /\ UNCHANGED <<file_path, exclude_framework, exclude_tests, disk,
                   violations, exclusions, exceptions, rule_idx>>
    /\ UNCHANGED notScanVars

\* open or readlines raises: a warning, and the call returns its empty lists
ReadFails ==
    /\ pc = "classify"
    /\ is_app_code_with_reason(file_path, exclude_framework, exclude_tests)[1]
    /\ pc' = "done"
    /\ UNCHANGED <<file_path, exclude_framework, exclude_tests, disk, lines,
                   lines_without_comments, lines_without_strings,
                   violations, exclusions, exceptions, rule_idx>>
    /\ UNCHANGED notScanVars

\* one entry of PLATFORM_TYPE_VIOLATIONS, over every line
ScanPlatformRule ==
    /\ pc = "platform"
    /\ LET rule == PLATFORM_TYPE_VIOLATIONS[rule_idx + 1]
           acc == PlatformLinesFrom(rule, file_path, lines, lines_without_strings, 1,
                      [violations |-> violations, exceptions |-> exceptions])
       IN  /\ violations' = acc.violations
           /\ exceptions' = acc.exceptions
    /\ IF rule_idx + 1 = Len(PLATFORM_TYPE_VIOLATIONS)
           THEN pc' = "view" /\ rule_idx' = 0
           ELSE pc' = pc /\ rule_idx' = rule_idx + 1
    /\ UNCHANGED <<file_path, exclude_framework, exclude_tests, disk, lines,
                   lines_without_comments, lines_without_strings, exclusions>>
    /\ UNCHANGED notScanVars

\* one entry of VIEW_VIOLATIONS in a library file: continue
SkipViewRule ==
    /\ pc = "view"
    /\ SkipsInFramework(VIEW_VIOLATIONS[rule_idx + 1], file_path)
    /\ IF rule_idx + 1 = Len(VIEW_VIOLATIONS)
           THEN pc' = "done" /\ rule_idx' = 0
           ELSE pc' = pc /\ rule_idx' = rule_idx + 1
    /\ UNCHANGED <<file_path, exclude_framework, exclude_tests, disk, lines,
                   lines_without_comments, lines_without_strings,
                   violations, exclusions, exceptions>>
    /\ UNCHANGED notScanVars

\* one entry of VIEW_VIOLATIONS, over every line
ScanViewRule ==
    /\ pc = "view"
    /\ ~SkipsInFramework(VIEW_VIOLATIONS[rule_idx + 1], file_path)
    /\ LET rule == VIEW_VIOLATIONS[rule_idx + 1]
           acc == ViewLinesFrom(rule, file_path, lines, lines_without_comments,
                      lines_without_strings, 1,
                      [violations |-> violations, exceptions |-> exceptions])
       IN  /\ violations' = acc.violations
           /\ exceptions' = acc.exceptions
    /\ IF rule_idx + 1 = Len(VIEW_VIOLATIONS)
           THEN pc' = "done" /\ rule_idx' = 0
           ELSE pc' = pc /\ rule_idx' = rule_idx + 1
    /\ UNCHANGED <<file_path, exclude_framework, exclude_tests, disk, lines,
                   lines_without_comments, lines_without_strings, exclusions>>
    /\ UNCHANGED notScanVars

NextScan ==
    \/ Exclude
    \/ ReadFile
    \/ ReadFails
    \/ ScanPlatformRule
    \/ SkipViewRule
    \/ ScanViewRule

SpecScan == InitScan /\ [][NextScan]_vars

(***************************************************************************)
(* find_violations_in_file on files whose lines hold several matches of a  *)
(* rule, matches of several rules, and suppressed matches.                 *)
(***************************************************************************)
MaxMatchLines == 2

MatchLines ==
    {"\"\" UIColor UIColor\n",
     "UIImage UIColor TextField( TextField(\n",
     "PlatformImage(uiImage: u) UIImage\n",
     "TextField( platformTextField(\n",
     "// 6LAYER_ALLOW: ok\n"}

MatchFiles == UNION {[1..n -> MatchLines] : n \in 1..MaxMatchLines}

InitMatch ==
    /\ LexIdle
    /\ TransIdle
    /\ MainIdle
    /\ in_multiline = FALSE
    /\ result = <<>>
    /\ \E c \in ScanConfigs :
        /\ file_path = c[1]
        /\ exclude_framework = c[2]
        /\ exclude_tests = c[3]
    /\ disk \in MatchFiles
    /\ lines = <<>>
    /\ lines_without_comments = <<>>
    /\ lines_without_strings = <<>>
    /\ violations = <<>>
    /\ exclusions = <<>>
    /\ exceptions = <<>>
    /\ rule_idx = 0
    /\ pc = "classify"

SpecMatch == InitMatch /\ [][NextScan]_vars

(***************************************************************************)
(* find_violations_in_file on one small file under every path built from   *)
(* the directories is_app_code_with_reason looks for, under every pair of  *)
(* toggles.                                                                *)
(***************************************************************************)
BuildDirs ==
    {"", ".build/", ".build-clean/", "DerivedData/", "Pods/", "Carthage/", ".swiftpm/"}

ToggledDirs ==
    {"", "Framework/", "Development/scripts/", "scripts/", "Development/Tests/",
     "Framework/Development/Tests/", "Framework/scripts/"}

FileNames == {"a.swift", "a.txt", "a"}

ClassifyPaths ==
    {b \o t \o f : b \in BuildDirs, t \in ToggledDirs, f \in FileNames}

InitClassify ==
    /\ LexIdle
    /\ TransIdle
    /\ MainIdle
    /\ in_multiline = FALSE
    /\ result = <<>>
    /\ file_path \in ClassifyPaths
    /\ exclude_framework \in BOOLEAN
    /\ exclude_tests \in BOOLEAN
    /\ disk = <<"UIColor.red\n">>
    /\ lines = <<>>
    /\ lines_without_comments = <<>>
    /\ lines_without_strings = <<>>
    /\ violations = <<>>
    /\ exclusions = <<>>
    /\ exceptions = <<>>
    /\ rule_idx = 0
    /\ pc = "classify"

SpecClassify == InitClassify /\ [][NextScan]_vars

(***************************************************************************)
(* find_violations_in_file as one call: the records it returns for a file  *)
(* f = [path, lines, readable].                                            *)
(***************************************************************************)
RECURSIVE PlatformRulesFrom(_, _, _, _, _)
PlatformRulesFrom(k, path, ls, lws, acc) ==
    IF k > Len(PLATFORM_TYPE_VIOLATIONS) THEN acc
    ELSE PlatformRulesFrom(k + 1, path, ls, lws,
             PlatformLinesFrom(PLATFORM_TYPE_VIOLATIONS[k], path, ls, lws, 1, acc))

RECURSIVE ViewRulesFrom(_, _, _, _, _, _)
ViewRulesFrom(k, path, ls, lwc, lws, acc) ==
    IF k > Len(VIEW_VIOLATIONS) THEN acc
    ELSE ViewRulesFrom(k + 1, path, ls, lwc, lws,
             IF SkipsInFramework(VIEW_VIOLATIONS[k], path) THEN acc
             ELSE ViewLinesFrom(VIEW_VIOLATIONS[k], path, ls, lwc, lws, 1, acc))

NoRecords == [violations |-> <<>>, exclusions |-> <<>>, exceptions |-> <<>>]

\* an unreadable file is recorded as excluded
UnreadableResultExcludes(path) ==
    [NoRecords EXCEPT !.exclusions = <<Exclusion(path, "unreadable")>>]

\* open or readlines raises: a warning, and the three empty lists
UnreadableResult(path) == NoRecords

find_violations_in_file(f, excl_framework, excl_tests) ==
    LET is_app == is_app_code_with_reason(f.path, excl_framework, excl_tests)
        lwc == strip_comments_from_lines(f.lines)
        lws == strip_string_literals_from_lines(lwc)
    IN  IF ~is_app[1]
            THEN [NoRecords EXCEPT !.exclusions = <<Exclusion(f.path, is_app[2])>>]
        ELSE IF ~f.readable THEN UnreadableResult(f.path)
        ELSE ViewRulesFrom(1, f.path, f.lines, lwc, lws,
                 PlatformRulesFrom(1, f.path, f.lines, lws, NoRecords))

(***************************************************************************)
(* violations.sort(key=lambda v: (v.priority, v.file_path, v.line_number)) *)
(* Python compares strings by code point and tuples lexicographically, and *)
(* its sort is stable.                                                     *)
(***************************************************************************)
\* the printable ASCII characters from code point 32 to 95, and from 97 to 126
PrintableTo95 ==
    " !\"#$%&'()*+,-./0123456789:;<=>?@ABCDEFGHIJKLMNOPQRSTUVWXYZ[\\]^_"

PrintableFrom97 == "abcdefghijklmnopqrstuvwxyz{|}~"

\* ord(c) for a printable ASCII character
ord(c) ==
    IF \E k \in 1..Len(PrintableTo95) : SubSeq(PrintableTo95, k, k) = c
        THEN 31 + (CHOOSE k \in 1..Len(PrintableTo95) : SubSeq(PrintableTo95, k, k) = c)
        ELSE 96 + (CHOOSE k \in 1..Len(PrintableFrom97) :
                       SubSeq(PrintableFrom97, k, k) = c)

\* a < b on str
RECURSIVE StrLess(_, _)
StrLess(a, b) ==
    IF b = "" THEN FALSE
    ELSE IF a = "" THEN TRUE
    ELSE IF CharAt(a, 0) = CharAt(b, 0) THEN StrLess(Tail(a), Tail(b))
    ELSE ord(CharAt(a, 0)) < ord(CharAt(b, 0))

\* the key leaves the line number out
KeyLessNoLine(v, w) ==
    \/ v.priority < w.priority
    \/ v.priority = w.priority /\ StrLess(v.file_path, w.file_path)

\* the key leaves the file path out
KeyLessNoPath(v, w) ==
    \/ v.priority < w.priority
    \/ v.priority = w.priority /\ v.line_number < w.line_number

\* key(v) < key(w)
KeyLess(v, w) ==
    \/ v.priority < w.priority
    \/ /\ v.priority = w.priority
       /\ \/ StrLess(v.file_path, w.file_path)
          \/ v.file_path = w.file_path /\ v.line_number < w.line_number

\* v put behind every element whose key is not greater
RECURSIVE InsertSorted(_, _)
InsertSorted(sorted, v) ==
    IF sorted # <<>> /\ KeyLess(v, sorted[Len(sorted)])
        THEN Append(InsertSorted(SubSeq(sorted, 1, Len(sorted) - 1), v),
                    sorted[Len(sorted)])
        ELSE Append(sorted, v)

RECURSIVE SortFrom(_, _, _)
SortFrom(vs, k, sorted) ==
    IF k > Len(vs) THEN sorted ELSE SortFrom(vs, k + 1, InsertSorted(sorted, vs[k]))

sort(vs) == SortFrom(vs, 1, <<>>)

(***************************************************************************)
(* main and scan_directory.  The candidates are up to MaxFiles files with  *)
(* distinct paths, in any order, each readable or not.                     *)
(***************************************************************************)
MaxFiles == 2

MainPaths == {"App/a.swift", "Framework/c.swift", "Framework/b.swift"}

MainContents ==
    {<<"TextField(UIImage\n", "UIColor\n">>,
     <<"UIColor // 6LAYER_ALLOW: ok\n">>}

CandidateFiles ==
    {[path |-> p, lines |-> c, readable |-> TRUE] : p \in MainPaths, c \in MainContents}
    \cup {[path |-> p, lines |-> <<>>, readable |-> FALSE] : p \in MainPaths}

Trees ==
    {t \in UNION {[1..n -> CandidateFiles] : n \in 0..MaxFiles} :
        \A i \in 1..Len(t) : \A j \in 1..Len(t) : i # j => t[i].path # t[j].path}

InitMain ==
    /\ LexIdle
    /\ TransIdle
    /\ ScanIdle
    /\ in_multiline = FALSE
    /\ lines = <<>>
    /\ result = <<>>
    /\ args \in [kind : {"dir", "file", "missing"}, json : {"", "ok", "fail"},
                  exclude_framework : BOOLEAN, exclude_tests : {FALSE}]
    /\ swift_files \in Trees
    /\ args.kind = "file" => Len(swift_files) = 1
    /\ args.kind = "missing" => swift_files = <<>>
    /\ swift_idx = 0
    /\ all_violations = <<>>
    /\ all_exclusions = <<>>
    /\ all_exceptions = <<>>
    /\ warned = FALSE
    /\ report = <<>>
    /\ exit_status = -1
    /\ pc = "main"

\* what main and scan_directory leave alone
notMainVars == <<lexVars, in_multiline, lines, result,
                 file_path, exclude_framework, exclude_tests, disk,
                 lines_without_comments, lines_without_strings, rule_idx,
                 transVars>>

\* path.is_file(): main calls find_violations_in_file itself
MainSingleFile ==
    /\ pc = "main"
    /\ args.kind = "file"
    /\ LET r == find_violations_in_file(swift_files[1], args.exclude_framework,
                                        args.exclude_tests)
       IN  /\ violations' = r.violations
           /\ exclusions' = r.exclusions
           /\ exceptions' = r.exceptions
    /\ pc' = "sort"
    /\ UNCHANGED mainVars
    /\ UNCHANGED notMainVars

\* main calls scan_directory; the directory exists and is globbed
EnterDirectory ==
    /\ pc = "main"
    /\ args.kind = "dir"
    /\ pc' = "files"
    /\ UNCHANGED <<violations, exclusions, exceptions>>
    /\ UNCHANGED mainVars
    /\ UNCHANGED notMainVars

\* main calls scan_directory; the directory does not exist
DirectoryMissing ==
    /\ pc = "main"
    /\ args.kind = "missing"
    /\ pc' = "sort"
    /\ UNCHANGED <<violations, exclusions, exceptions>>
    /\ UNCHANGED mainVars
    /\ UNCHANGED notMainVars

\* one iteration of the loop over swift_files
ScanFile ==
    /\ pc = "files"
    /\ swift_idx < Len(swift_files)
    /\ LET r == find_violations_in_file(swift_files[swift_idx + 1],
                                        args.exclude_framework, args.exclude_tests)
       IN  /\ all_violations' = all_violations \o r.violations
           /\ all_exclusions' = all_exclusions \o r.exclusions
           /\ all_exceptions' = all_exceptions \o r.exceptions
    /\ swift_idx' = swift_idx + 1
    /\ UNCHANGED <<pc, violations, exclusions, exceptions>>
    /\ UNCHANGED <<args, swift_files, warned, report, exit_status>>
    /\ UNCHANGED notMainVars

\* the same number of exclusions as of files, and not zero
SomeExcluded(excl, files) == Len(excl) > 0

\* the test before the warning
AllExcluded(excl, files) == Len(excl) = Len(files) /\ Len(files) > 0

\* the loop is over, the warning is printed, and scan_directory returns
ReturnWarned ==
    /\ pc = "files"
    /\ swift_idx = Len(swift_files)
    /\ AllExcluded(all_exclusions, swift_files)
    /\ warned' = TRUE
    /\ violations' = all_violations
    /\ exclusions' = all_exclusions
    /\ exceptions' = all_exceptions
    /\ pc' = "sort"
    /\ UNCHANGED <<args, swift_files, swift_idx, all_violations, all_exclusions,
                   all_exceptions, report, exit_status>>
    /\ UNCHANGED notMainVars

\* the loop is over and scan_directory returns without the warning
ReturnQuiet ==
    /\ pc = "files"
    /\ swift_idx = Len(swift_files)
    /\ ~AllExcluded(all_exclusions, swift_files)
    /\ violations' = all_violations
    /\ exclusions' = all_exclusions
    /\ exceptions' = all_exceptions
    /\ pc' = "sort"
    /\ UNCHANGED mainVars
    /\ UNCHANGED notMainVars

SortViolations ==
    /\ pc = "sort"
    /\ violations' = sort(violations)
    /\ pc' = "report"
    /\ UNCHANGED <<exclusions, exceptions>>
    /\ UNCHANGED mainVars
    /\ UNCHANGED notMainVars

\* print_console_report(violations, exclusions, exceptions)
Report ==
    /\ pc = "report"
    /\ report' = [violations |-> violations, exclusions |-> exclusions,
                  exceptions |-> exceptions]
    /\ pc' = IF args.json # "" THEN "json" ELSE "exit"
    /\ UNCHANGED <<violations, exclusions, exceptions>>
    /\ UNCHANGED <<args, swift_files, swift_idx, all_violations, all_exclusions,
                   all_exceptions, warned, exit_status>>
    /\ UNCHANGED notMainVars

\* the JSON report is written
WriteJson ==
    /\ pc = "json"
    /\ args.json = "ok"
    /\ pc' = "exit"
    /\ UNCHANGED <<violations, exclusions, exceptions>>
    /\ UNCHANGED mainVars
    /\ UNCHANGED notMainVars

\* open(args.json, 'w') raises; nothing catches it and the interpreter
\* ends the process with status 1
WriteJsonFails ==
    /\ pc = "json"
    /\ args.json = "fail"
    /\ exit_status' = 1
    /\ pc' = "exited"
    /\ UNCHANGED <<violations, exclusions, exceptions>>
    /\ UNCHANGED <<args, swift_files, swift_idx, all_violations, all_exclusions,
                   all_exceptions, warned, report>>
    /\ UNCHANGED notMainVars

\* the status is zero whatever was found
ExitStatusAlwaysZero(vs) == 0

\* 1 if violations else 0
ExitStatus(vs) == IF vs # <<>> THEN 1 ELSE 0

\* sys.exit(1 if violations else 0)
Exit ==
    /\ pc = "exit"
    /\ exit_status' = ExitStatus(violations)
    /\ pc' = "exited"
    /\ UNCHANGED <<violations, exclusions, exceptions>>
    /\ UNCHANGED <<args, swift_files, swift_idx, all_violations, all_exclusions,
                   all_exceptions, warned, report>>
    /\ UNCHANGED notMainVars

NextMain ==
    \/ MainSingleFile
    \/ EnterDirectory
    \/ DirectoryMissing
    \/ ScanFile
    \/ ReturnWarned
    \/ ReturnQuiet
    \/ SortViolations
    \/ Report
    \/ WriteJson
    \/ WriteJsonFails
    \/ Exit

SpecMain == InitMain /\ [][NextMain]_vars

(***************************************************************************)
(* scripts/generate_missing_translations.py: LocalizationTranslator.       *)
(*                                                                         *)
(* The text of a Localizable.strings file is a TLA+ string.  A dict is a   *)
(* function; the dict of a .strings file maps each key to its value.       *)
(***************************************************************************)
\* s.find(sub, k), computed without recursion over the characters of s
IndexFrom(s, sub, k) ==
    LET hits == {i \in k..(Len(s) - Len(sub)) : Slice(s, i, i + Len(sub)) = sub}
    IN  IF hits = {} THEN -1 ELSE CHOOSE i \in hits : \A j \in hits : i <= j

\* sub in s
In(sub, s) == IndexFrom(s, sub, 0) >= 0

\* s.replace(old, new), for a non-empty old
RECURSIVE Replace(_, _, _)
Replace(s, old, new) ==
    LET k == IndexFrom(s, old, 0)
    IN  IF k < 0 THEN s
        ELSE Slice(s, 0, k) \o new \o Replace(Slice(s, k + Len(old), Len(s)), old, new)

NL == "\n"

_escape_string(value) ==
    Replace(Replace(Replace(value, BS, BS \o BS), DQ, BS \o DQ), NL, BS \o "n")

\* the un-escaping of a parsed value (line 244)
Unescape(value) ==
    Replace(Replace(Replace(value, BS \o DQ, DQ), BS \o "n", NL), BS \o BS, BS)

\* the index of the quote that ends (?:[^"\\]|\\.)* from index p, or -1
RECURSIVE ValueEnd(_, _)
ValueEnd(content, p) ==
    IF p >= Len(content) THEN -1
    ELSE IF CharAt(content, p) = DQ THEN p
    ELSE IF CharAt(content, p) = BS
        THEN IF p + 1 < Len(content) /\ CharAt(content, p + 1) # NL
                 THEN ValueEnd(content, p + 2)
             ELSE -1
    ELSE ValueEnd(content, p + 1)

\* the match of "([^"]+)"\s*=\s*"((?:[^"\\]|\\.)*)"\s*; that starts at index
\* i of content: its two groups and its end, or end = -1 when there is none
NoEntry == [key |-> "", value |-> "", end |-> -1]

EntryAt(content, i) ==
    IF CharAt(content, i) # DQ THEN NoEntry
    ELSE LET j == IndexFrom(content, DQ, i + 1)
         IN  IF j <= i + 1 THEN NoEntry
             ELSE LET e == SkipSpaces(content, j + 1)
                  IN  IF CharAt(content, e) # "=" THEN NoEntry
                      ELSE LET v == SkipSpaces(content, e + 1)
                           IN  IF CharAt(content, v) # DQ THEN NoEntry
                               ELSE LET q == ValueEnd(content, v + 1)
                                    IN  IF q < 0 THEN NoEntry
                                        ELSE LET t == SkipSpaces(content, q + 1)
                                             IN  IF CharAt(content, t) # ";"
                                                     THEN NoEntry
                                                 ELSE [key |-> Slice(content, i + 1, j),
                                                       value |-> Slice(content, v + 1, q),
                                                       end |-> t + 1]

\* re.finditer over content from index i, filling the dict strings; a match
\* starts at a quote
RECURSIVE ParseFrom(_, _, _)
ParseFrom(content, i, strings) ==
    IF IndexFrom(content, DQ, i) < 0 THEN strings
    ELSE LET d == IndexFrom(content, DQ, i)
             m == EntryAt(content, d)
         IN  IF m.end < 0 THEN ParseFrom(content, d + 1, strings)
             ELSE ParseFrom(content, m.end,
                            [k \in DOMAIN strings \cup {m.key} |->
                                IF k = m.key THEN Unescape(m.value) ELSE strings[k]])

\* a file: whether it exists, and its content
NoFile(empty) == [exists |-> FALSE, content |-> empty]

File(content) == [exists |-> TRUE, content |-> content]

_parse_strings_file(file) ==
    IF ~file.exists THEN <<>> ELSE ParseFrom(file.content, 0, <<>>)

HEADER ==
    NL \o
    "/* ============================================================================" \o NL \o
    "   MACHINE TRANSLATIONS - REVIEW REQUIRED" \o NL \o
    "   ============================================================================ */" \o NL

StringsEntry(key, value) ==
    DQ \o _escape_string(key) \o DQ \o " = " \o DQ \o _escape_string(value) \o DQ \o ";" \o NL

(***************************************************************************)
(* The catalog.  An .xcstrings document is its "strings" dict: key ->      *)
(* localizations, a dict language -> stringUnit [state, value]; a missing  *)
(* value is None.  For .strings files the catalog is a dict language ->    *)
(* dict of that language's file.  File operations succeed.                 *)
(***************************************************************************)
TRANSLATE_REQUEST_TIMEOUT_SECONDS == 30

SOURCE == "en"

LANGUAGE_NAMES ==
    {"en", "es", "fr", "de", "de-CH", "ja", "ko", "zh-Hans", "pl", "da", "nl",
     "it", "sv"}

\* the elements of a set of strings in ascending order
RECURSIVE SortedFrom(_, _)
SortedFrom(S, acc) ==
    IF S = {} THEN acc
    ELSE LET m == CHOOSE x \in S : \A y \in S : x = y \/ StrLess(x, y)
         IN  SortedFrom(S \ {m}, Append(acc, m))

sorted(S) == SortedFrom(S, <<>>)

StringUnit(state, value) == [state |-> state, value |-> value]

_extract_source_string(entry) ==
    IF SOURCE \in DOMAIN entry THEN entry[SOURCE].value ELSE None

_discover_target_languages(strings) ==
    UNION {DOMAIN strings[k] : k \in DOMAIN strings} \ {SOURCE}

\* the texts _translate_string returns None for without calling the provider
NothingToTranslate(text) ==
    \/ text = None
    \/ Strip(text) = ""
    \/ Strip(text) \in {"", ":", "%@", "%d", "%f", "%.2f", "%.3f", "%.4f"}

\* existing and existing.strip()
Existing(localizations, target_lang) ==
    /\ target_lang \in DOMAIN localizations
    /\ localizations[target_lang].value # None
    /\ Strip(localizations[target_lang].value) # ""

\* the pairs the loop of translate_xcstrings goes through, in its order:
\* the keys with a source text, each with every target language in turn
RECURSIVE PairsFrom(_, _, _, _)
PairsFrom(keys, k, langs, acc) ==
    IF k > Len(keys) THEN acc
    ELSE PairsFrom(keys, k + 1, langs,
                   acc \o [i \in 1..Len(langs) |-> <<keys[k], langs[i]>>])

XcstringsPairs(strings, targets) ==
    PairsFrom(sorted({k \in DOMAIN strings :
                         _extract_source_string(strings[k]) # None}),
              1, sorted(targets), <<>>)

\* the dict d with d[k] = v
Put(d, k, v) == [x \in DOMAIN d \cup {k} |-> IF x = k THEN v ELSE d[x]]

\* d.update(e)
Update(d, e) == [x \in DOMAIN d \cup DOMAIN e |-> IF x \in DOMAIN e THEN e[x] ELSE d[x]]

\* the lines save_strings and _save_strings_periodic append for the keys of
\* strings that do not occur in content
RECURSIVE NewTranslationsFrom(_, _, _, _, _)
NewTranslationsFrom(keys, k, content, strings, acc) ==
    IF k > Len(keys) THEN acc
    ELSE NewTranslationsFrom(keys, k + 1, content, strings,
            IF ~In(keys[k], content)
                THEN acc \o StringsEntry(keys[k], strings[keys[k]])
            ELSE acc)

NewTranslations(content, strings) ==
    NewTranslationsFrom(sorted(DOMAIN strings), 1, content, strings, "")

AppendTranslations(file, strings) ==
    LET new_translations == NewTranslations(file.content, strings)
    IN  IF new_translations = "" THEN file
        ELSE IF ~In("MACHINE TRANSLATIONS - REVIEW REQUIRED", file.content)
            THEN File(file.content \o HEADER \o new_translations)
        ELSE File(file.content \o new_translations)

_save_strings_periodic(files, lang_code, lang_strings) ==
    IF ~files.strings[lang_code].exists THEN files
    ELSE [files EXCEPT !.strings[lang_code] = AppendTranslations(@, lang_strings)]

_save_xcstrings_periodic(files, strings) ==
    [files EXCEPT !.xcstrings = File(strings)]

\* not self.dry_run and (translated - last_save_count) >= save_interval
PeriodicSaveDueAlsoDry(t, translated, saved) ==
    translated - saved >= t.save_interval

PeriodicSaveDue(t, translated, saved) ==
    ~t.dry_run /\ translated - saved >= t.save_interval

\* save_xcstrings(None)
save_xcstrings(files, t, strings) ==
    IF t.dry_run THEN files
    ELSE [files EXCEPT
            !.xcstrings_backup =
                IF t.create_backup /\ files.xcstrings.exists THEN files.xcstrings ELSE @,
            !.xcstrings = File(strings)]

\* save_strings: every language of the catalog but 'en' whose file exists
save_strings(files, t, cat) ==
    IF t.dry_run THEN files
    ELSE LET saved == {l \in DOMAIN cat \ {"en"} : files.strings[l].exists}
         IN  [files EXCEPT
                !.strings_backup =
                    [l \in DOMAIN @ |->
                        IF l \in saved /\ t.create_backup THEN files.strings[l] ELSE @[l]],
                !.strings =
                    [l \in DOMAIN @ |->
                        IF l \in saved THEN AppendTranslations(@[l], cat[l]) ELSE @[l]]]

(***************************************************************************)
(* The runs of the translator: main builds a LocalizationTranslator over   *)
(* the files of base_dir, calls translate and then save.  The provider is  *)
(* the environment: a call returns a text or None in time, raises, or      *)
(* outlasts the timeout - and then returns late or never.                  *)
(***************************************************************************)
\* largest --save-interval
MaxSaveInterval == 2

Langs == {"de", "fr"}

\* the keys of the source language: one of them occurs inside the other
KeySets == {{"a", "ab"}}

\* the options a run is started with: every save interval with and without
\* --dry-run and --languages; --mark-as-translated and --backup together
Options ==
    {[file_format |-> "", dry_run |-> d, save_interval |-> n,
      mark_as_translated |-> b, create_backup |-> b, languages |-> ls] :
        d \in BOOLEAN, n \in 1..MaxSaveInterval, b \in BOOLEAN, ls \in {{}, Langs}}

LocalizationsOptions ==
    {[l \in {SOURCE} \cup D |->
        IF l = SOURCE THEN StringUnit("translated", "Hi")
        ELSE StringUnit("translated", "x")] : D \in SUBSET Langs}

XcstringsDocs == UNION {[K -> LocalizationsOptions] : K \in KeySets}

RECURSIVE TextFrom(_, _, _, _)
TextFrom(keys, k, value, acc) ==
    IF k > Len(keys) THEN acc
    ELSE TextFrom(keys, k + 1, value, acc \o StringsEntry(keys[k], value))

\* a .strings file that gives every key of K the same value
TextOf(K, value) == TextFrom(sorted(K), 1, value, "")

StringsDirs ==
    UNION {{[l \in {"en"} \cup Langs |->
                IF l = "en" THEN File(TextOf(K, "Hi")) ELSE f[l]] :
            f \in [Langs -> {NoFile("")} \cup {File(TextOf(S, "x")) : S \in SUBSET K}]} :
           K \in KeySets}

NoStringsDir == [l \in {"en"} \cup Langs |-> NoFile("")]

Filesystem(xcstrings, strings) ==
    [xcstrings |-> xcstrings, xcstrings_backup |-> NoFile(<<>>),
     strings |-> strings, strings_backup |-> [l \in Langs |-> NoFile("")]]

Filesystems ==
    {Filesystem(File(doc), NoStringsDir) : doc \in XcstringsDocs}
    \cup {Filesystem(NoFile(<<>>), dir) : dir \in StringsDirs}
    \cup {Filesystem(NoFile(<<>>), NoStringsDir)}

NoStats == [total_strings |-> 0, translated |-> 0, skipped |-> 0, errors |-> 0]

InitTranslate ==
    /\ LexIdle
    /\ ScanIdle
    /\ MainIdle
    /\ in_multiline = FALSE
    /\ lines = <<>>
    /\ result = <<>>
    /\ translator \in Options
    /\ fs \in Filesystems
    /\ catalog = <<>>
    /\ target_languages = {}
    /\ stats = NoStats
    /\ last_save_count = 0
    /\ work_items = <<>>
    /\ work_idx = 0
    /\ worker = "none"
    /\ provider_calls = {}
    /\ run = "first"
    /\ loaded = <<>>
    /\ previous = "none"
    /\ pc = "t_new"

\* what the translator leaves alone
notTransVars == <<lexVars, in_multiline, lines, result, scanVars, mainVars>>

\* _detect_format finds Localizable.xcstrings; _load_xcstrings
LoadXcstrings ==
    /\ pc = "t_new"
    /\ fs.xcstrings.exists
    /\ translator' = [translator EXCEPT !.file_format = "xcstrings"]
    /\ catalog' = fs.xcstrings.content
    /\ loaded' = fs.xcstrings.content
    /\ target_languages' = _discover_target_languages(fs.xcstrings.content)
    /\ pc' = "t_translate"
    /\ UNCHANGED <<stats, last_save_count, fs, work_items, work_idx, worker,
                   provider_calls, run, previous>>
    /\ UNCHANGED notTransVars

\* _detect_format finds en.lproj/Localizable.strings; _load_strings
LoadStrings ==
    /\ pc = "t_new"
    /\ ~fs.xcstrings.exists
    /\ fs.strings["en"].exists
    /\ translator' = [translator EXCEPT !.file_format = "strings"]
    /\ LET found == {l \in Langs : fs.strings[l].exists}
           cat == [l \in {"en"} \cup found |-> _parse_strings_file(fs.strings[l])]
       IN  /\ catalog' = cat
           /\ loaded' = cat
           /\ target_languages' = found
    /\ pc' = "t_translate"
    /\ UNCHANGED <<stats, last_save_count, fs, work_items, work_idx, worker,
                   provider_calls, run, previous>>
    /\ UNCHANGED notTransVars

\* _detect_format raises FileNotFoundError; main prints it and exits
NoLocalizationFiles ==
    /\ pc = "t_new"
    /\ ~fs.xcstrings.exists
    /\ ~fs.strings["en"].exists
    /\ pc' = "t_failed"
    /\ UNCHANGED transVars
    /\ UNCHANGED notTransVars

\* translate_xcstrings or translate_strings returns at once: no target language
NoTargetLanguages ==
    /\ pc = "t_translate"
    /\ translator.languages = {}
    /\ target_languages = {}
    /\ pc' = "t_save"
    /\ UNCHANGED transVars
    /\ UNCHANGED notTransVars

\* translate_xcstrings up to the loop (lines 341-372)
StartXcstrings ==
    /\ pc = "t_translate"
    /\ translator.file_format = "xcstrings"
    /\ LET targets == IF translator.languages # {} THEN translator.languages
                      ELSE target_languages
       IN  /\ targets # {}
           /\ target_languages' = targets
           /\ work_items' = XcstringsPairs(catalog, targets)
    /\ stats' = [stats EXCEPT !.total_strings =
                    Cardinality({k \in DOMAIN catalog :
                                    _extract_source_string(catalog[k]) # None})]
    /\ work_idx' = 0
    /\ pc' = "t_item"
    /\ UNCHANGED <<translator, catalog, last_save_count, fs, worker,
                   provider_calls, run, loaded, previous>>
    /\ UNCHANGED notTransVars

\* the work items of one language: its missing keys, in the order the set
\* gives them
MissingOf(files, en_keys, lang_code, ascending) ==
    IF ~files.strings[lang_code].exists THEN <<>>
    ELSE LET missing == sorted(en_keys \ DOMAIN _parse_strings_file(files.strings[lang_code]))
         IN  [i \in 1..Len(missing) |->
                <<IF ascending THEN missing[i] ELSE missing[Len(missing) + 1 - i],
                  lang_code>>]

RECURSIVE WorkItemsFrom(_, _, _, _, _, _)
WorkItemsFrom(files, en_keys, langs, k, ascending, acc) ==
    IF k > Len(langs) THEN acc
    ELSE WorkItemsFrom(files, en_keys, langs, k + 1, ascending,
                       acc \o MissingOf(files, en_keys, langs[k], ascending))

\* translate_strings up to the loop (lines 416-465)
StartStrings ==
    /\ pc = "t_translate"
    /\ translator.file_format = "strings"
    /\ LET languages_to_process == IF translator.languages # {} THEN translator.languages
                                   ELSE target_languages
           en_keys == DOMAIN catalog["en"]
       IN  /\ languages_to_process # {}
           /\ \E ascending \in BOOLEAN :
                work_items' = WorkItemsFrom(fs, en_keys, sorted(languages_to_process),
                                            1, ascending, <<>>)
           /\ stats' = [stats EXCEPT !.total_strings = Cardinality(en_keys)]
    /\ work_idx' = 0
    /\ pc' = "t_item"
    /\ UNCHANGED <<translator, catalog, target_languages, last_save_count, fs,
                   worker, provider_calls, run, loaded, previous>>
    /\ UNCHANGED notTransVars

\* the item the loop is at: its key and its language
ItemKey == work_items[work_idx + 1][1]

ItemLang == work_items[work_idx + 1][2]

AtItem == pc = "t_item" /\ work_idx < Len(work_items)

\* translate_strings, lines 471-479: the language's dict, refreshed from its file
Refreshed(cat, files, lang_code) ==
    LET lang_strings == IF lang_code \in DOMAIN cat THEN cat[lang_code] ELSE <<>>
    IN  Put(cat, lang_code,
            IF files.strings[lang_code].exists
                THEN Update(lang_strings, _parse_strings_file(files.strings[lang_code]))
            ELSE lang_strings)

\* the text handed to _translate_string for the item
ItemText ==
    IF translator.file_format = "xcstrings"
        THEN _extract_source_string(catalog[ItemKey])
    ELSE IF ItemKey \in DOMAIN catalog["en"] THEN catalog["en"][ItemKey] ELSE ""

\* the loop reaches the call of _translate_string for the item
ReachesTranslate ==
    IF translator.file_format = "xcstrings"
        THEN ~Existing(catalog[ItemKey], ItemLang)
    ELSE /\ ItemLang \in LANGUAGE_NAMES
         /\ ItemKey \notin DOMAIN Refreshed(catalog, fs, ItemLang)[ItemLang]
         /\ ItemText # ""

\* the iterations that end without a provider call: the translation exists
\* already, the language has no name, the source text is empty, or
\* _translate_string returns None for a text with nothing to translate
SkipItem ==
    /\ AtItem
    /\ ~ReachesTranslate \/ NothingToTranslate(ItemText)
    /\ stats' = IF translator.file_format = "strings" /\ ItemLang \notin LANGUAGE_NAMES
                    THEN stats
                ELSE [stats EXCEPT !.skipped = @ + 1]
    /\ catalog' = IF translator.file_format = "strings" /\ ItemLang \in LANGUAGE_NAMES
                      THEN Refreshed(catalog, fs, ItemLang)
                  ELSE catalog
    /\ work_idx' = work_idx + 1
    /\ UNCHANGED <<translator, target_languages, last_save_count, fs, work_items,
                   worker, provider_calls, run, loaded, previous>>
    /\ UNCHANGED <<pc>>
    /\ UNCHANGED notTransVars

\* _translate_string submits the provider call to its executor and waits
\* for the result
Submit ==
    /\ AtItem
    /\ ReachesTranslate
    /\ ~NothingToTranslate(ItemText)
    /\ catalog' = IF translator.file_format = "strings"
                      THEN Refreshed(catalog, fs, ItemLang)
                  ELSE catalog
    /\ worker' = "running"
    /\ provider_calls' = provider_calls \cup {<<ItemKey, ItemLang>>}
    /\ pc' = "t_wait"
    /\ UNCHANGED <<translator, target_languages, stats, last_save_count, fs,
                   work_items, work_idx, run, loaded, previous>>
    /\ UNCHANGED notTransVars

\* the catalog with the translation of the item stored (lines 396-404, 496)
Stored(translated) ==
    IF translator.file_format = "xcstrings"
        THEN [catalog EXCEPT ![ItemKey] =
                Put(@, ItemLang,
                    StringUnit(IF translator.mark_as_translated THEN "translated"
                               ELSE "needs_review", translated))]
    ELSE [catalog EXCEPT ![ItemLang] = Put(@, ItemKey, translated)]

\* the periodic save of the format, with the catalog cat in memory
PeriodicSave(files, cat) ==
    IF translator.file_format = "xcstrings"
        THEN _save_xcstrings_periodic(files, cat)
    ELSE _save_strings_periodic(files, ItemLang, cat[ItemLang])

\* the provider returns in time; the loop stores a translation and saves
\* when a periodic save is due, or counts a skip for an empty result
ProviderReturns ==
    /\ pc = "t_wait"
    /\ \E translated \in {"T", None} :
        IF translated # None
            THEN /\ catalog' = Stored(translated)
                 /\ stats' = [stats EXCEPT !.translated = @ + 1]
                 /\ IF PeriodicSaveDue(translator, stats.translated + 1, last_save_count)
                        THEN /\ fs' = PeriodicSave(fs, Stored(translated))
                             /\ last_save_count' = stats.translated + 1
                    ELSE UNCHANGED <<fs, last_save_count>>
        ELSE /\ stats' = [stats EXCEPT !.skipped = @ + 1]
             /\ UNCHANGED <<catalog, fs, last_save_count>>
    /\ worker' = "none"
    /\ work_idx' = work_idx + 1
    /\ pc' = "t_item"
    /\ UNCHANGED <<translator, target_languages, work_items, provider_calls, run,
                   loaded, previous>>
    /\ UNCHANGED notTransVars

\* _translate_string returns None after an error: one error, one skip
AfterError ==
    /\ stats' = [stats EXCEPT !.errors = @ + 1, !.skipped = @ + 1]
    /\ worker' = "none"
    /\ work_idx' = work_idx + 1
    /\ pc' = "t_item"
    /\ UNCHANGED <<translator, catalog, target_languages, last_save_count, fs,
                   work_items, provider_calls, run, loaded, previous>>
    /\ UNCHANGED notTransVars

\* the provider raises in time (lines 326-329)
ProviderRaises ==
    /\ pc = "t_wait"
    /\ AfterError

\* future.result raises TimeoutError while the call is still running; the
\* exception leaves the with block, whose exit is executor.shutdown(wait=True)
TimeoutExpires ==
    /\ pc = "t_wait"
    /\ worker' \in {"late", "stuck"}
    /\ pc' = "t_shutdown"
    /\ UNCHANGED <<translator, catalog, target_languages, stats, last_save_count,
                   fs, work_items, work_idx, provider_calls, run, loaded, previous>>
    /\ UNCHANGED notTransVars

\* the provider call returns after the timeout: shutdown returns, and the
\* handler of TimeoutError runs (lines 322-325)
WorkerReturnsLate ==
    /\ pc = "t_shutdown"
    /\ worker = "late"
    /\ AfterError

\* the loop is over; translate prints the summary
FinishLoop ==
    /\ pc = "t_item"
    /\ work_idx = Len(work_items)
    /\ pc' = "t_save"
    /\ UNCHANGED transVars
    /\ UNCHANGED notTransVars

\* save, for either format
Save ==
    /\ pc = "t_save"
    /\ fs' = IF translator.file_format = "xcstrings"
                 THEN save_xcstrings(fs, translator, catalog)
             ELSE save_strings(fs, translator, catalog)
    /\ pc' = "t_done"
    /\ UNCHANGED <<translator, catalog, target_languages, stats, last_save_count,
                   work_items, work_idx, worker, provider_calls, run, loaded,
                   previous>>
    /\ UNCHANGED notTransVars

\* every pair of a key with a source text and a target language has a
\* translation in the catalog in memory
EveryPairTranslated ==
    IF translator.file_format = "xcstrings"
        THEN \A k \in DOMAIN catalog :
                _extract_source_string(catalog[k]) # None
                    => \A l \in target_languages : Existing(catalog[k], l)
    ELSE \A l \in (IF translator.languages # {} THEN translator.languages
                   ELSE target_languages) :
            /\ l \in DOMAIN catalog
            /\ DOMAIN catalog["en"] \subseteq DOMAIN catalog[l]

\* the script is started again, with the same options, on the files the run
\* before left
RunAgain ==
    /\ pc = "t_done"
    /\ run = "first"
    /\ run' = "again"
    /\ previous' = IF EveryPairTranslated THEN "complete" ELSE "partial"
    /\ translator' = [translator EXCEPT !.file_format = ""]
    /\ catalog' = <<>>
    /\ target_languages' = {}
    /\ stats' = NoStats
    /\ last_save_count' = 0
    /\ work_items' = <<>>
    /\ work_idx' = 0
    /\ provider_calls' = {}
    /\ loaded' = <<>>
    /\ pc' = "t_new"
    /\ UNCHANGED <<fs, worker>>
    /\ UNCHANGED notTransVars

NextTranslate ==
    \/ LoadXcstrings
    \/ LoadStrings
    \/ NoLocalizationFiles
    \/ NoTargetLanguages
    \/ StartXcstrings
    \/ StartStrings
    \/ SkipItem
    \/ Submit
    \/ ProviderReturns
    \/ ProviderRaises
    \/ TimeoutExpires
    \/ WorkerReturnsLate
    \/ FinishLoop
    \/ Save
    \/ RunAgain

SpecTranslate == InitTranslate /\ [][NextTranslate]_vars

\* The runs the timeout is studied on: a catalog or a directory with
\* translations missing, saved after every translation.  A provider call
\* that is going to return after the timeout does return; no other step is
\* needed to leave _translate_string once the timeout has expired.
TimeoutFilesystems ==
    {f \in Filesystems :
        /\ f.xcstrings.exists =>
                \A k \in DOMAIN f.xcstrings.content :
                    DOMAIN f.xcstrings.content[k] \in {{SOURCE}, {SOURCE, "de"}}
        /\ \A l \in Langs : f.strings[l].exists => f.strings[l].content = ""}

InitTimeout ==
    /\ InitTranslate
    /\ translator.save_interval = 1
    /\ ~translator.dry_run
    /\ ~translator.create_backup
    /\ fs \in TimeoutFilesystems

SpecTimeout == InitTimeout /\ [][NextTranslate]_vars /\ WF_vars(WorkerReturnsLate)

(***************************************************************************)
(* The claims about the translator.                                        *)
(***************************************************************************)
\* the provider call of the running _translate_string has outlasted the
\* timeout
TimedOut == pc = "t_shutdown"

\* C21: a provider call that does not return within
\* TRANSLATE_REQUEST_TIMEOUT_SECONDS, or never returns, makes _translate_string
\* return None with one more error counted, and the loop goes on to the
\* next item.
C21_TimeoutReturnsNone ==
    /\ [][TimedOut /\ ~TimedOut'
            => /\ stats'.errors = stats.errors + 1
               /\ catalog' = catalog
               /\ work_idx' = work_idx + 1]_vars
    /\ TimedOut ~> (pc = "t_item")

\* translate_xcstrings or translate_strings is in its loop
InLoop == pc \in {"t_item", "t_wait", "t_shutdown"}

\* the document of the catalog file gives the pair this string unit
InDocument(file, key, lang, unit) ==
    /\ file.exists
    /\ key \in DOMAIN file.content
    /\ lang \in DOMAIN file.content[key]
    /\ file.content[key][lang] = unit

\* the pairs whose translation is in the catalog in memory and not in the
\* pair's localization file
Unsaved ==
    IF translator.file_format = "xcstrings"
        THEN {p \in (DOMAIN catalog) \X Langs :
                /\ Existing(catalog[p[1]], p[2])
                /\ ~InDocument(fs.xcstrings, p[1], p[2], catalog[p[1]][p[2]])}
    ELSE {p \in (DOMAIN catalog["en"]) \X (DOMAIN catalog \ {"en"}) :
            /\ p[1] \in DOMAIN catalog[p[2]]
            /\ p[1] \notin DOMAIN _parse_strings_file(fs.strings[p[2]])}

\* C22: without --dry-run, at every point of the translation loop of either
\* format fewer than save_interval translations exist only in memory.
C22_UnsavedBelowInterval ==
    InLoop /\ ~translator.dry_run
        => Cardinality(Unsaved) < translator.save_interval

\* a run has loaded its catalog
Loaded == pc \in {"t_translate", "t_item", "t_wait", "t_shutdown", "t_save", "t_done"}

\* the translation the catalog cat holds for a pair <<key, language>>, None
\* when it holds none
TranslationIn(cat, p) ==
    IF translator.file_format = "xcstrings"
        THEN IF p[1] \in DOMAIN cat /\ p[2] \in DOMAIN cat[p[1]]
                 THEN cat[p[1]][p[2]].value
             ELSE None
    ELSE IF p[2] \in DOMAIN cat /\ p[1] \in DOMAIN cat[p[2]] THEN cat[p[2]][p[1]]
         ELSE None

\* the translation the localization file holds for a pair
TranslationOnDisk(p) ==
    IF translator.file_format = "xcstrings"
        THEN IF fs.xcstrings.exists THEN TranslationIn(fs.xcstrings.content, p) ELSE None
    ELSE LET strings == _parse_strings_file(fs.strings[p[2]])
         IN  IF p[1] \in DOMAIN strings THEN strings[p[1]] ELSE None

\* the pairs of a key of the source language and a target language
AllPairs ==
    IF translator.file_format = "xcstrings" THEN (DOMAIN loaded) \X Langs
    ELSE (DOMAIN loaded["en"]) \X Langs

\* the pairs that had a non-empty translation when the run started
TranslatedAtStart == {p \in AllPairs : TranslationIn(loaded, p) # None}

\* C23: a pair that has a non-empty translation when a run starts is
\* skipped: the provider is not called for it and its value stays as it
\* was, in memory and in its file; and a run that follows a run which
\* translated every pair calls the provider for no pair and changes no
\* translation.
C23_ResumeSkipsTranslated ==
    Loaded =>
        /\ \A p \in TranslatedAtStart :
            /\ p \notin provider_calls
            /\ TranslationIn(catalog, p) = TranslationIn(loaded, p)
            /\ TranslationOnDisk(p) = TranslationIn(loaded, p)
        /\ run = "again" /\ previous = "complete" /\ ~translator.dry_run
            => /\ provider_calls = {}
               /\ \A p \in AllPairs : TranslationIn(catalog, p) = TranslationIn(loaded, p)

\* C24: with --dry-run no step of a run writes, appends to or backs up a
\* file, and last_save_count stays 0.
C24_DryRunWritesNothing ==
    /\ [][translator.dry_run => fs' = fs]_vars
    /\ [](translator.dry_run => last_save_count = 0)

\* a dry run went through translate and save with at least as many
\* translations as the save interval, and with backups asked for
C24_Witness ==
    /\ translator.dry_run
    /\ translator.create_backup
    /\ pc = "t_done"
    /\ stats.translated >= translator.save_interval
    /\ stats.translated >= 2

(***************************************************************************)
(* The lexical rules the claims refer to, written as a lexer with three    *)
(* mutually exclusive states: code, inside a string literal (quote # None) *)
(* and inside a block comment (blk).  Kinds gives, for every character of  *)
(* the input, "C" (code), "S" (part of a string literal, quotes included)  *)
(* or "X" (part of a comment).                                             *)
(***************************************************************************)
RECURSIVE KindsFrom(_, _, _, _, _)
KindsFrom(l, k, quote, blk, acc) ==
    IF k >= Len(l) THEN acc
    ELSE LET c == CharAt(l, k)
             n == CharAt(l, k + 1)
         IN  IF blk THEN
                 IF c = "*" /\ n = "/" THEN KindsFrom(l, k + 2, None, FALSE, acc \o "XX")
                 ELSE KindsFrom(l, k + 1, None, TRUE, acc \o "X")
             ELSE IF quote # None THEN
                 IF c = BS /\ n # None THEN KindsFrom(l, k + 2, quote, FALSE, acc \o "SS")
                 ELSE IF c = quote THEN KindsFrom(l, k + 1, None, FALSE, acc \o "S")
                 ELSE KindsFrom(l, k + 1, quote, FALSE, acc \o "S")
             ELSE IF c = DQ \/ c = SQ THEN KindsFrom(l, k + 1, c, FALSE, acc \o "S")
             ELSE IF c = "/" /\ n = "*" THEN KindsFrom(l, k + 2, None, TRUE, acc \o "XX")
             ELSE IF c = "/" /\ n = "/"
                 THEN KindsFrom(l, k + 2, None, FALSE, acc \o "XX")
             ELSE KindsFrom(l, k + 1, None, FALSE, acc \o "C")

Kinds(l, in_ml) == KindsFrom(l, 0, None, in_ml, "")

\* marks of the literals of a line that holds no comment: "O" opening quote,
\* "S" content, "E" the first unescaped occurrence of the opening quote, "C" code
RECURSIVE LiteralMarksFrom(_, _, _, _)
LiteralMarksFrom(l, k, quote, acc) ==
    IF k >= Len(l) THEN acc
    ELSE LET c == CharAt(l, k)
         IN  IF quote = None THEN
                 IF c = DQ \/ c = SQ THEN LiteralMarksFrom(l, k + 1, c, acc \o "O")
                 ELSE LiteralMarksFrom(l, k + 1, None, acc \o "C")
             ELSE IF c = BS /\ k + 1 < Len(l)
                 THEN LiteralMarksFrom(l, k + 2, quote, acc \o "SS")
             ELSE IF c = quote THEN LiteralMarksFrom(l, k + 1, None, acc \o "E")
             ELSE LiteralMarksFrom(l, k + 1, quote, acc \o "S")

LiteralMarks(l) == LiteralMarksFrom(l, 0, None, "")

Returned == pc = "stripped" \/ pc = "masked"

(***************************************************************************)
(* C2: at every step of the character scan of strip_comments_from_line,    *)
(* for every line and either incoming state, in_string and in_multiline    *)
(* are never both true.                                                    *)
(***************************************************************************)
C2_StringAndCommentExclusive == ~(cs.in_string /\ cs.in_multiline)

(***************************************************************************)
(* C3: in both strippers a literal ends only at the first unescaped        *)
(* occurrence of its own opening quote (a backslash takes the character    *)
(* after it with it; a quote of the other kind is content), and the two    *)
(* strippers find the same literals on the comment-stripped line.          *)
(***************************************************************************)
C3_LiteralsEndAtOwnUnescapedQuote ==
    Returned =>
        /\ cs.mark = LiteralMarks(stripped)
        /\ StringScan(stripped).mark = LiteralMarks(stripped)
        /\ StringScan(line).mark = LiteralMarks(line)
        /\ cs.mark = StringScan(stripped).mark

\* a literal holding an escaped quote and a quote of the other kind was scanned
C3_Witness ==
    /\ pc = "masked"
    /\ line = "\"\\\"'\""
    /\ cs.mark = "OSSSE"
    /\ clean = PLACEHOLDER

(***************************************************************************)
(* C5: the output of strip_comments_from_line holds no "//" and no         *)
(* block-comment opener outside the spans that were string literals in the *)
(* input (for every line, either incoming state).                          *)
(***************************************************************************)
C5_NoCommentResidue ==
    Returned =>
        \A p \in 1..(Len(stripped) - 1) :
            SubSeq(stripped, p, p + 1) \in {"//", "/*"} =>
                /\ CharAt(Kinds(line, in_multiline_comment), cs.src[p]) = "S"
                /\ CharAt(Kinds(line, in_multiline_comment), cs.src[p + 1]) = "S"

(***************************************************************************)
(* C6: stripping is idempotent: strip_comments_from_line (starting outside *)
(* a block comment) returns its own output unchanged, and so does          *)
(* strip_string_literals_from_line.                                        *)
(***************************************************************************)
C6_StrippingIdempotent ==
    pc = "masked" =>
        /\ strip_comments_from_line(stripped, FALSE)[1] = stripped
        /\ strip_string_literals_from_line(clean) = clean
        /\ strip_string_literals_from_line(strip_string_literals_from_line(line))
               = strip_string_literals_from_line(line)

\* a comment and a literal were both stripped from the line
C6_Witness ==
    /\ pc = "masked"
    /\ line = "'a'/*"
    /\ stripped = "'a'"
    /\ clean = PLACEHOLDER

(***************************************************************************)
(* C1: a block comment opened by the first comment opener of line N and    *)
(* closed by the first closer that follows, on line M > N, masks every     *)
(* line between N and M completely, whatever characters the comment holds; *)
(* the text of line N before the opener and the text of line M after the   *)
(* closer are emitted verbatim; the block-comment state is false after M.  *)
(* (The lines before N, the text before the opener and the text after the  *)
(* closer are plain text, so that N and M are where the comment begins and *)
(* ends.)                                                                  *)
(***************************************************************************)
Plain(s) == \A k \in 0..(Len(s) - 1) : CharAt(s, k) \notin {DQ, SQ, BS, "/", "*"}

HasCloser(s) == \E k \in 0..(Len(s) - 2) : Slice(s, k, k + 2) = "*/"

FirstCloser(s) ==
    CHOOSE k \in 0..(Len(s) - 2) :
        /\ Slice(s, k, k + 2) = "*/"
        /\ \A j \in 0..(k - 1) : Slice(s, j, j + 2) # "*/"

\* line s opens a block comment at index a and leaves it open
OpensAt(s, a) ==
    /\ Slice(s, a, a + 2) = "/*"
    /\ Plain(Slice(s, 0, a))
    /\ ~HasCloser(Slice(s, a + 2, Len(s)))

C1_BlockCommentMasksLines ==
    \A N \in 1..Len(result) : \A M \in 1..Len(result) :
        \A a \in 0..(Len(lines[N]) - 2) :
            ( /\ N < M
              /\ \A j \in 1..(N - 1) : Plain(lines[j])
              /\ OpensAt(lines[N], a)
              /\ \A j \in (N + 1)..(M - 1) : ~HasCloser(lines[j])
              /\ HasCloser(lines[M])
              /\ Plain(Slice(lines[M], FirstCloser(lines[M]) + 2, Len(lines[M]))) )
            =>
            ( /\ result[N] = Slice(lines[N], 0, a)
              /\ \A j \in (N + 1)..(M - 1) : result[j] = ""
              /\ result[M] = Slice(lines[M], FirstCloser(lines[M]) + 2, Len(lines[M]))
              /\ (Len(result) = M => ~in_multiline) )

(***************************************************************************)
(* What the rule-engine claims speak of: the rules of both catalogs, the   *)
(* records of a rule on a line, and the annotations of a line.             *)
(***************************************************************************)
RuleList ==
    [k \in 1..Len(PLATFORM_TYPE_VIOLATIONS) |->
        [name |-> PLATFORM_TYPE_VIOLATIONS[k].name,
         pattern |-> PLATFORM_TYPE_VIOLATIONS[k].pattern,
         exclude_patterns |-> PLATFORM_TYPE_VIOLATIONS[k].exclude_patterns,
         tier |-> PLATFORM_TYPE_VIOLATIONS[k].priority,
         library_skip |-> FALSE]]
    \o
    [k \in 1..Len(VIEW_VIOLATIONS) |->
        [name |-> VIEW_VIOLATIONS[k].name,
         pattern |-> VIEW_VIOLATIONS[k].pattern,
         exclude_patterns |-> VIEW_VIOLATIONS[k].exclude_patterns,
         tier |-> VIEW_VIOLATIONS[k].priority,
         library_skip |-> VIEW_VIOLATIONS[k].exclude_in_framework]]

Rules == {RuleList[k] : k \in 1..Len(RuleList)}

\* the file was read and every rule has been applied to it
Scanned == pc = "done" /\ lines # <<>>

LibraryFile == Contains(file_path, "Framework/")

FindingsAt(r, n) ==
    {k \in 1..Len(violations) :
        violations[k].violation_type = r.name /\ violations[k].line_number = n}

ExceptionsAt(r, n) ==
    {k \in 1..Len(exceptions) :
        exceptions[k].violation_type = r.name /\ exceptions[k].line_number = n}

\* the clean text of line n matches the primary pattern of r
Matches(r, n) == re_search(r.pattern, lines_without_strings[n])

\* a later step discards an unannotated match of r on line n
Discarded(r, n) ==
    \/ r.tier = 2 /\ r.library_skip /\ LibraryFile
    \/ \E e \in 1..Len(r.exclude_patterns) :
           re_search(r.exclude_patterns[e], lines_without_strings[n])

HasMarker(l) == Contains(l, MARKER)

BeginsWithMarker(l) == StartsWith(Strip(l), MARKER)

\* the text after the first marker of l, trimmed
ReasonOf(l) == Strip(AfterFirst(Strip(l), MARKER))

\* line n carries the inline annotation with a non-empty reason
InlineAnnotated(n) == HasMarker(lines[n]) /\ ReasonOf(lines[n]) # ""

\* the line before line n, trimmed, begins with the annotation (non-empty reason)
PrecedingAnnotated(n) ==
    n > 1 /\ BeginsWithMarker(lines[n - 1]) /\ ReasonOf(lines[n - 1]) # ""

(***************************************************************************)
(* C4: text that matches a rule's primary pattern and occurs on a line     *)
(* only inside string literals (single- or double-quoted, terminated or    *)
(* running to the end of the line) yields neither a Finding nor an         *)
(* AllowedException for that line: every literal, delimiters included, is  *)
(* replaced by the placeholder before the pattern is tested.               *)
(***************************************************************************)
\* every match of pat in the comment-stripped line nc lies inside a literal
OnlyInLiterals(pat, nc) ==
    /\ \E k \in 0..Len(nc) : MatchEnd(pat, 1, nc, k) >= 0
    /\ \A k \in 0..Len(nc) :
           MatchEnd(pat, 1, nc, k) >= 0 =>
               \A j \in k..(MatchEnd(pat, 1, nc, k) - 1) :
                   CharAt(LiteralMarks(nc), j) # "C"

\* nc with every literal, from its opening quote to its end, replaced
RECURSIVE MaskedFrom(_, _, _)
MaskedFrom(nc, marks, k) ==
    IF k >= Len(nc) THEN ""
    ELSE (CASE CharAt(marks, k) = "C" -> CharAt(nc, k)
            [] CharAt(marks, k) = "O" -> PLACEHOLDER
            [] OTHER -> "") \o MaskedFrom(nc, marks, k + 1)

C7_AnnotatedMatchIsException ==
    (Scanned /\ ~LibraryFile) =>
        \A n \in 1..Len(lines) : \A r \in Rules :
            (Matches(r, n) /\ (InlineAnnotated(n) \/ PrecedingAnnotated(n))) =>
                /\ Cardinality(ExceptionsAt(r, n)) = 1
                /\ FindingsAt(r, n) = {}
                /\ \A k \in ExceptionsAt(r, n) :
                       \/ InlineAnnotated(n) /\ exceptions[k].reason = ReasonOf(lines[n])
                       \/ PrecedingAnnotated(n)
                           /\ exceptions[k].reason = ReasonOf(lines[n - 1])

(***************************************************************************)
(* C8: only the match line and the one line above it are consulted.        *)
(* NoAnnotationInReach: the match line has no inline annotation, the line  *)
(* above does not begin with the marker, and an annotation (with a reason) *)
(* stands two or more lines above or trails code on the line above.        *)
(***************************************************************************)
NoAnnotationInReach(n) ==
    /\ ~HasMarker(lines[n])
    /\ n > 1 => ~BeginsWithMarker(lines[n - 1])
    /\ \/ \E j \in 1..(n - 2) : HasMarker(lines[j]) /\ ReasonOf(lines[j]) # ""
       \/ n > 1 /\ HasMarker(lines[n - 1]) /\ ReasonOf(lines[n - 1]) # ""

\* C8 as stated: such a match is recorded as a Finding, and no AllowedException
C8_OutOfReachIsFinding ==
    Scanned =>
        \A n \in 1..Len(lines) : \A r \in Rules :
            (Matches(r, n) /\ NoAnnotationInReach(n)) =>
                FindingsAt(r, n) # {} /\ ExceptionsAt(r, n) = {}

\* C8 as amended: such a match yields no AllowedException, and it is recorded
\* as a Finding unless a later step (library skip, suppression) discards it
C8_OutOfReachIsNoException ==
    Scanned =>
        \A n \in 1..Len(lines) : \A r \in Rules :
            (Matches(r, n) /\ NoAnnotationInReach(n)) =>
                /\ ExceptionsAt(r, n) = {}
                /\ FindingsAt(r, n) # {} <=> ~Discarded(r, n)

\* the annotation two lines above the match, and the match a Finding
C8_Witness ==
    /\ Scanned
    /\ file_path = "App/a.swift"
    /\ lines = <<"  // 6LAYER_ALLOW: old\n",
                 "f(\"a\\\"UIColor\", 'UIImage', \"TextField(\n",
                 "UIColor.red\n">>
    /\ Len(violations) = 1
    /\ violations[1].violation_type = "UIColor"
    /\ violations[1].line_number = 3
    /\ exceptions = <<>>

(***************************************************************************)
(* C9: an annotation whose reason is empty or whitespace-only.             *)
(* EmptyAnnotation: the marker found for line n (inline, or on the line    *)
(* above when the line has no marker) is followed by nothing but space.    *)
(***************************************************************************)
EmptyAnnotation(n) ==
    \/ HasMarker(lines[n]) /\ ReasonOf(lines[n]) = ""
    \/ /\ ~HasMarker(lines[n])
       /\ n > 1
       /\ BeginsWithMarker(lines[n - 1])
       /\ ReasonOf(lines[n - 1]) = ""

\* C9 as stated: the match is an AllowedException with an empty reason, no Finding
C9_EmptyReasonAccepted ==
    Scanned =>
        \A n \in 1..Len(lines) : \A r \in Rules :
            (Matches(r, n) /\ EmptyAnnotation(n)) =>
                /\ \E k \in ExceptionsAt(r, n) : exceptions[k].reason = ""
                /\ FindingsAt(r, n) = {}

\* C9 as amended: the empty reason is the "no exception" answer of
\* get_exception_reason: no AllowedException, and the match is a Finding
\* unless a later step (library skip, suppression) discards it
C9_EmptyReasonIsNoException ==
    Scanned =>
        \A n \in 1..Len(lines) : \A r \in Rules :
            (Matches(r, n) /\ EmptyAnnotation(n)) =>
                /\ ExceptionsAt(r, n) = {}
                /\ FindingsAt(r, n) # {} <=> ~Discarded(r, n)

\* an inline marker without a reason, and one on the line above: two Findings
C9_Witness ==
    /\ Scanned
    /\ file_path = "App/a.swift"
    /\ lines = <<"UIColor.red // 6LAYER_ALLOW:  \n",
                 "// 6LAYER_ALLOW:\n",
                 "UIColor.red\n">>
    /\ Len(violations) = 2
    /\ violations[1].line_number = 1
    /\ violations[2].line_number = 3
    /\ exceptions = <<>>

(***************************************************************************)
(* C10: a view rule marked exclude_in_framework in a scanned library file. *)
(* Annotated: get_exception_reason has a reason for line n.                *)
(***************************************************************************)
Annotated(n) == InlineAnnotated(n) \/ (~HasMarker(lines[n]) /\ PrecedingAnnotated(n))

\* the platform rules behave in a library file as anywhere else
PlatformRulesUnaffected ==
    \A n \in 1..Len(lines) : \A r \in Rules :
        (r.tier = 1 /\ Matches(r, n)) =>
            IF Annotated(n)
                THEN Cardinality(ExceptionsAt(r, n)) = 1 /\ FindingsAt(r, n) = {}
                ELSE /\ ExceptionsAt(r, n) = {}
                     /\ FindingsAt(r, n) # {} <=> ~Discarded(r, n)

\* C10 as stated: the exception is resolved before the library skip
C10_ExceptionBeforeLibrarySkip ==
    (Scanned /\ LibraryFile) =>
        /\ \A n \in 1..Len(lines) : \A r \in Rules :
               (r.tier = 2 /\ r.library_skip /\ Matches(r, n)) =>
                   IF Annotated(n)
                       THEN ExceptionsAt(r, n) # {}
                       ELSE ExceptionsAt(r, n) = {} /\ FindingsAt(r, n) = {}
        /\ PlatformRulesUnaffected

\* C10 as amended: the library skip comes first: no match of such a rule,
\* annotated or not, leaves a record; the platform rules are unaffected
C10_LibrarySkipBeforeException ==
    (Scanned /\ LibraryFile) =>
        /\ \A n \in 1..Len(lines) : \A r \in Rules :
               (r.tier = 2 /\ r.library_skip) =>
                   ExceptionsAt(r, n) = {} /\ FindingsAt(r, n) = {}
        /\ PlatformRulesUnaffected

\* a library file with an annotated and an unannotated view match and two
\* platform matches: only the platform matches are recorded
C10_Witness ==
    /\ Scanned
    /\ file_path = "Framework/a.swift"
    /\ lines = <<"TextField(UIColor) // 6LAYER_ALLOW: ok\n",
                 "TextField(PlatformImage(uiImage: UIImage()))\n",
                 "UIColor.red\n">>
    /\ Matches(RuleList[3], 1) /\ Matches(RuleList[3], 2)
    /\ Len(violations) = 1
    /\ violations[1].violation_type = "UIColor"
    /\ violations[1].line_number = 3
    /\ Len(exceptions) = 1
    /\ exceptions[1].violation_type = "UIColor"
    /\ exceptions[1].line_number = 1

(***************************************************************************)
(* C11: suppression.  For any rule of either tier and any unannotated      *)
(* line, if one of the rule's exclude patterns matches the same clean line *)
(* as the primary pattern, no Finding is recorded for that rule on that    *)
(* line: every primary match on the line is discarded, one that is not     *)
(* adjacent to the suppressing text included.                              *)
(***************************************************************************)
\* neither line n nor the line above it carries the marker
Unannotated(n) ==
    ~HasMarker(lines[n]) /\ (n > 1 => ~BeginsWithMarker(lines[n - 1]))

\* an exclude pattern of r matches the clean text of line n
Suppressed(r, n) ==
    \E e \in 1..Len(r.exclude_patterns) :
        \E k \in 0..Len(lines_without_strings[n]) :
            MatchEnd(r.exclude_patterns[e], 1, lines_without_strings[n], k) >= 0

C11_SuppressedLineHasNoFinding ==
    Scanned =>
        \A n \in 1..Len(lines) : \A r \in Rules :
            (Matches(r, n) /\ Unannotated(n) /\ Suppressed(r, n)) =>
                FindingsAt(r, n) = {} /\ ExceptionsAt(r, n) = {}

\* a platform match away from the suppressing text and a suppressed view
\* match were scanned in an application file
C11_Witness ==
    /\ Scanned
    /\ file_path = "App/a.swift"
    /\ lines = <<"PlatformImage(uiImage: u) UIImage\n",
                 "TextField( platformTextField(\n">>
    /\ Matches(RuleList[2], 1) /\ Suppressed(RuleList[2], 1)
    /\ Matches(RuleList[3], 2) /\ Suppressed(RuleList[3], 2)
    /\ violations = <<>>
    /\ exceptions = <<>>

(***************************************************************************)
(* C12: for an unannotated, unsuppressed line, a tier-1 rule records one   *)
(* Finding per match of its primary pattern on the clean line, each with   *)
(* column = 1 + the start offset of the match in the clean line; a tier-2  *)
(* rule records at most one Finding per line, at the first match; several  *)
(* rules matching the same line each record their own Findings.            *)
(***************************************************************************)
\* the start offsets of the matches of pat in clean
MatchStarts(pat, clean_line) ==
    {k \in 0..Len(clean_line) : MatchEnd(pat, 1, clean_line, k) >= 0}

ColumnsAt(r, n) == {violations[k].column : k \in FindingsAt(r, n)}

C12_FindingsPerMatch ==
    Scanned =>
        \A n \in 1..Len(lines) : \A r \in Rules :
            (Matches(r, n) /\ Unannotated(n) /\ ~Suppressed(r, n)) =>
                LET starts == MatchStarts(r.pattern, lines_without_strings[n])
                IN  IF r.tier = 1
                        THEN /\ Cardinality(FindingsAt(r, n)) = Cardinality(starts)
                             /\ ColumnsAt(r, n) = {k + 1 : k \in starts}
                        ELSE /\ Cardinality(FindingsAt(r, n)) <= 1
                             /\ \A c \in ColumnsAt(r, n) :
                                    \A k \in starts : c <= k + 1
                             /\ ColumnsAt(r, n) \subseteq {k + 1 : k \in starts}
                             /\ ~(r.library_skip /\ LibraryFile) =>
                                    FindingsAt(r, n) # {}

\* two matches of a platform rule behind a literal, and a line matched twice
\* by the view rule and once by each platform rule
C12_Witness ==
    /\ Scanned
    /\ file_path = "App/a.swift"
    /\ lines = <<"\"\" UIColor UIColor\n",
                 "UIImage UIColor TextField( TextField(\n">>
    /\ ColumnsAt(RuleList[1], 1) = {18, 26}
    /\ Cardinality(FindingsAt(RuleList[1], 1)) = 2
    /\ ColumnsAt(RuleList[1], 2) = {9}
    /\ ColumnsAt(RuleList[2], 2) = {1}
    /\ ColumnsAt(RuleList[3], 2) = {17}
    /\ Cardinality(FindingsAt(RuleList[3], 2)) = 1
    /\ Len(violations) = 5

(***************************************************************************)
(* What the scope claims speak of: the exclusion reasons in their fixed    *)
(* priority order, each with the text looked for in the path and whether   *)
(* the reason is switched on.                                              *)
(***************************************************************************)
ReasonOrder(ef, et) ==
    << <<".build", "build directory", TRUE>>,
       <<"DerivedData", "DerivedData directory", TRUE>>,
       <<"Pods/", "Pods directory", TRUE>>,
       <<"Carthage/", "Carthage directory", TRUE>>,
       <<".swiftpm/", "Swift Package Manager directory", TRUE>>,
       <<"Framework/", "framework code", ef>>,
       <<"scripts/", "script file", ef>>,
       <<"Development/Tests/", "test code", et>> >>

\* the reasons of ReasonOrder that match the path
MatchingReasons(path, ef, et) ==
    {k \in 1..Len(ReasonOrder(ef, et)) :
        ReasonOrder(ef, et)[k][3] /\ Contains(path, ReasonOrder(ef, et)[k][1])}

\* the last component of the path is a name followed by .swift
HasSwiftSuffix(path) ==
    LET name == PathName(path)
    IN  Len(name) > 6 /\ SubSeq(name, Len(name) - 5, Len(name)) = ".swift"

ExpectedOutcome(path, ef, et) ==
    LET m == MatchingReasons(path, ef, et)
    IN  IF m # {}
            THEN <<FALSE, ReasonOrder(ef, et)[CHOOSE k \in m : \A j \in m : k <= j][2]>>
        ELSE IF ~HasSwiftSuffix(path) THEN <<FALSE, "not a Swift file">>
        ELSE <<TRUE, "">>

\* the call has classified its file
Classified == pc # "classify" /\ file_path # ""

\* the call returned at once with one Exclusion carrying reason r
ExcludedWith(r) ==
    /\ pc = "done"
    /\ exclusions = <<[file_path |-> file_path, reason |-> r]>>
    /\ lines = <<>> /\ violations = <<>> /\ exceptions = <<>>

(***************************************************************************)
(* C13: is_app_code_with_reason is total and first-match: for every path   *)
(* and pair of toggles the outcome is either out of scope with the first   *)
(* matching reason of the fixed order, or in scope with an empty reason;   *)
(* in scope exactly when no reason matches and the suffix is .swift.       *)
(***************************************************************************)
C13_FirstMatchingReason ==
    LET v == is_app_code_with_reason(file_path, exclude_framework, exclude_tests)
        e == ExpectedOutcome(file_path, exclude_framework, exclude_tests)
    IN  /\ v = e
        /\ v[1] <=> /\ MatchingReasons(file_path, exclude_framework, exclude_tests) = {}
                    /\ HasSwiftSuffix(file_path)
        /\ v[1] <=> v[2] = ""
        /\ Classified => IF e[1] THEN exclusions = <<>> ELSE ExcludedWith(e[2])

\* a path with a library directory (switched off), a test directory
\* (switched on) and a wrong extension: the test reason is the first
C13_Witness ==
    /\ file_path = "Framework/Development/Tests/a.txt"
    /\ ~exclude_framework /\ exclude_tests
    /\ ExcludedWith("test code")

(***************************************************************************)
(* C14: a file under a build or dependency directory is out of scope with  *)
(* that directory's reason under all four combinations of the toggles,     *)
(* also when its path lies under a library or test directory as well.      *)
(***************************************************************************)
DependencyReasons ==
    {"build directory", "DerivedData directory", "Pods directory",
     "Carthage directory", "Swift Package Manager directory"}

UnderDependencyDir(path) ==
    \E d \in {".build/", ".build-clean/", "DerivedData/", "Pods/", "Carthage/",
              ".swiftpm/"} : Contains(path, d)

C14_DependencyAlwaysExcluded ==
    UnderDependencyDir(file_path) =>
        /\ \A ef \in BOOLEAN : \A et \in BOOLEAN :
               /\ ~is_app_code_with_reason(file_path, ef, et)[1]
               /\ is_app_code_with_reason(file_path, ef, et)[2] \in DependencyReasons
               /\ is_app_code_with_reason(file_path, ef, et) =
                      is_app_code_with_reason(file_path, TRUE, TRUE)
        /\ Classified => \E r \in DependencyReasons : ExcludedWith(r)

\* a dependency directory above a library and a test directory, both
\* toggles on
C14_Witness ==
    /\ file_path = "Pods/Framework/Development/Tests/a.swift"
    /\ exclude_framework /\ exclude_tests
    /\ ExcludedWith("Pods directory")

(***************************************************************************)
(* C15: a .swift file under Framework/ that matches no build or dependency *)
(* exclusion is excluded as library code exactly when the exclude-library  *)
(* toggle is on; with the toggle off, and the file not excluded as test    *)
(* code, it is in scope and scanned, whatever the exclude-test toggle.     *)
(***************************************************************************)
C15_LibraryExcludedIffToggle ==
    (/\ Contains(file_path, "Framework/")
     /\ ~UnderDependencyDir(file_path)
     /\ HasSwiftSuffix(file_path)) =>
        LET v == is_app_code_with_reason(file_path, exclude_framework, exclude_tests)
            as_test == exclude_tests /\ Contains(file_path, "Development/Tests/")
        IN  /\ exclude_framework => v = <<FALSE, "framework code">>
            /\ ~exclude_framework => v[2] # "framework code"
            /\ (~exclude_framework /\ ~as_test) => v = <<TRUE, "">>
            /\ Classified =>
                   /\ exclude_framework => ExcludedWith("framework code")
                   /\ (~exclude_framework /\ ~as_test) =>
                          /\ exclusions = <<>>
                          /\ pc = "done" =>
                                 \/ lines = disk
                                 \/ lines = <<>> /\ violations = <<>>

\* a library file in a script directory, library toggle off, test toggle
\* on: read and scanned
C15_Witness ==
    /\ file_path = "Framework/scripts/a.swift"
    /\ ~exclude_framework /\ exclude_tests
    /\ pc = "done"
    /\ lines = disk
    /\ exclusions = <<>>
    /\ Len(violations) = 1

(***************************************************************************)
(* What the claims about main and scan_directory speak of.                 *)
(***************************************************************************)
\* the records of the files of a list, file by file, in the order of the list
RECURSIVE ScanAll(_, _, _)
ScanAll(files, k, acc) ==
    IF k > Len(files) THEN acc
    ELSE LET r == find_violations_in_file(files[k], args.exclude_framework,
                                          args.exclude_tests)
         IN  ScanAll(files, k + 1,
                 [violations |-> acc.violations \o r.violations,
                  exclusions |-> acc.exclusions \o r.exclusions,
                  exceptions |-> acc.exceptions \o r.exceptions])

\* what the scan collected, before the sort
Collected ==
    IF args.kind = "dir" THEN ScanAll(swift_files, 1, NoRecords)
    ELSE IF args.kind = "file"
        THEN find_violations_in_file(swift_files[1], args.exclude_framework,
                                     args.exclude_tests)
    ELSE NoRecords

Range(seq) == {seq[k] : k \in 1..Len(seq)}

Count(seq, x) == Cardinality({k \in 1..Len(seq) : seq[k] = x})

IsPermutation(a, b) ==
    /\ Len(a) = Len(b)
    /\ \A x \in Range(a) \cup Range(b) : Count(a, x) = Count(b, x)

\* the paths of the candidate files, ascending
PathsAscending == <<"App/a.swift", "Framework/b.swift", "Framework/c.swift">>

PathRank(p) == CHOOSE k \in 1..Len(PathsAscending) : PathsAscending[k] = p

\* (tier, path, line) of v is not greater than that of w
KeyNotGreater(v, w) ==
    \/ v.priority < w.priority
    \/ /\ v.priority = w.priority
       /\ \/ PathRank(v.file_path) < PathRank(w.file_path)
          \/ v.file_path = w.file_path /\ v.line_number <= w.line_number

AfterSort == pc \in {"report", "json", "exit", "exited"}

AfterScan == pc \in {"sort", "report", "json", "exit", "exited"}

(***************************************************************************)
(* C16: the Findings handed to the reporter are a permutation of the       *)
(* collected Findings in which every consecutive pair is non-decreasing in *)
(* (tier, file path, line number); AllowedExceptions and Exclusions are    *)
(* handed on in encounter order, unchanged.                                *)
(***************************************************************************)
C16_FindingsSortedForReport ==
    AfterSort =>
        /\ IsPermutation(violations, Collected.violations)
        /\ \A i \in 1..(Len(violations) - 1) :
               KeyNotGreater(violations[i], violations[i + 1])
        /\ exceptions = Collected.exceptions
        /\ exclusions = Collected.exclusions
        /\ report # <<>> =>
               report = [violations |-> violations, exclusions |-> exclusions,
                         exceptions |-> exceptions]

\* two files, the later path first, each with Findings of both tiers' rules
\* found out of line order: the reporter got them sorted
C16_Witness ==
    /\ pc = "exited"
    /\ args.kind = "dir" /\ ~args.exclude_framework
    /\ Len(swift_files) = 2
    /\ swift_files[1].path = "Framework/b.swift"
    /\ swift_files[2].path = "App/a.swift"
    /\ Len(all_violations) = 5
    /\ report.violations # all_violations
    /\ [i \in 1..5 |-> <<report.violations[i].priority,
                         report.violations[i].file_path,
                         report.violations[i].line_number>>] =
           << <<1, "App/a.swift", 1>>, <<1, "App/a.swift", 2>>,
              <<1, "Framework/b.swift", 1>>, <<1, "Framework/b.swift", 2>>,
              <<2, "App/a.swift", 1>> >>

(***************************************************************************)
(* C17: the exit status.                                                   *)
(***************************************************************************)
\* C17 as stated: the exit status is non-zero exactly when there is at least
\* one Finding after the scan
C17_ExitNonZeroIffFinding ==
    pc = "exited" => (exit_status # 0 <=> violations # <<>>)

\* C17 as amended: the exit status is non-zero exactly when there is at
\* least one Finding or the requested JSON report cannot be written;
\* AllowedExceptions, Exclusions, unreadable files and the all-excluded
\* warning never make it non-zero
C17_ExitNonZeroIffFindingOrJsonFailure ==
    pc = "exited" =>
        /\ exit_status \in {0, 1}
        /\ exit_status # 0 <=> (violations # <<>> \/ args.json = "fail")
        /\ (violations = <<>> /\ args.json # "fail") => exit_status = 0

\* an AllowedException and an unreadable file, the JSON report written:
\* status 0
C17_Witness ==
    /\ pc = "exited"
    /\ args.kind = "dir" /\ args.json = "ok"
    /\ Len(swift_files) = 2
    /\ ~swift_files[1].readable /\ swift_files[1].path = "App/a.swift"
    /\ exceptions # <<>>
    /\ violations = <<>>
    /\ exit_status = 0

(***************************************************************************)
(* C18: an in-scope file that cannot be read contributes no Finding, no    *)
(* AllowedException and no Exclusion, and scan_directory goes on with the  *)
(* remaining files: the records are those of the list without that file.   *)
(***************************************************************************)
InScopeUnreadable(f) ==
    ~f.readable /\ ExpectedOutcome(f.path, args.exclude_framework, args.exclude_tests)[1]

NotInScopeUnreadable(f) == ~InScopeUnreadable(f)

C18_UnreadableContributesNothing ==
    (AfterScan /\ args.kind # "missing") =>
        /\ \A k \in 1..Len(swift_files) :
               InScopeUnreadable(swift_files[k]) =>
                   \A rec \in Range(violations) \cup Range(exclusions)
                                \cup Range(exceptions) :
                       rec.file_path # swift_files[k].path
        /\ args.kind = "dir" =>
               /\ swift_idx = Len(swift_files)
               /\ [violations |-> all_violations, exclusions |-> all_exclusions,
                   exceptions |-> all_exceptions] =
                      ScanAll(SelectSeq(swift_files, NotInScopeUnreadable), 1, NoRecords)

\* an unreadable file first, then a file with three Findings
C18_Witness ==
    /\ pc = "exited"
    /\ args.kind = "dir"
    /\ Len(swift_files) = 2
    /\ InScopeUnreadable(swift_files[1])
    /\ swift_files[2].path = "App/a.swift"
    /\ Len(all_violations) = 3
    /\ all_exclusions = <<>>

(***************************************************************************)
(* C19: the results do not depend on the order in which the files are      *)
(* processed: for files with distinct paths, any other processing order    *)
(* gives the same sorted Findings and the same sets of AllowedExceptions   *)
(* and Exclusions, and the records of each file are those of scanning it   *)
(* alone.                                                                  *)
(***************************************************************************)
Reorderings(files) ==
    {[i \in 1..Len(files) |-> files[p[i]]] :
        p \in {q \in [1..Len(files) -> 1..Len(files)] :
                  \A i \in 1..Len(files) : \A j \in 1..Len(files) :
                      i # j => q[i] # q[j]}}

\* the records of seq that belong to the file at path
RECURSIVE OfPath(_, _)
OfPath(seq, path) ==
    IF seq = <<>> THEN <<>>
    ELSE (IF Head(seq).file_path = path THEN <<Head(seq)>> ELSE <<>>)
         \o OfPath(Tail(seq), path)

C19_OrderIndependent ==
    (AfterSort /\ args.kind = "dir") =>
        /\ \A other \in Reorderings(swift_files) :
               LET r == ScanAll(other, 1, NoRecords)
               IN  /\ sort(r.violations) = violations
                   /\ Range(r.exceptions) = Range(exceptions)
                   /\ Range(r.exclusions) = Range(exclusions)
        /\ \A k \in 1..Len(swift_files) :
               LET alone == find_violations_in_file(swift_files[k],
                                args.exclude_framework, args.exclude_tests)
               IN  /\ OfPath(all_violations, swift_files[k].path) = alone.violations
                   /\ OfPath(all_exceptions, swift_files[k].path) = alone.exceptions
                   /\ OfPath(all_exclusions, swift_files[k].path) = alone.exclusions

\* two files with Findings, processed in descending order of their paths
C19_Witness ==
    /\ pc = "exited"
    /\ args.kind = "dir" /\ ~args.exclude_framework
    /\ Len(swift_files) = 2
    /\ swift_files[1].path = "Framework/c.swift"
    /\ swift_files[2].path = "Framework/b.swift"
    /\ Len(all_violations) = 4
    /\ violations # all_violations

(***************************************************************************)
(* C20: scan_directory prints the all-files-excluded warning exactly when  *)
(* there is at least one candidate file and the classifier excluded every  *)
(* one of them, and it then still returns normally, with no Finding and no *)
(* AllowedException.                                                       *)
(***************************************************************************)
EveryCandidateExcluded ==
    /\ Len(swift_files) > 0
    /\ \A k \in 1..Len(swift_files) :
           ~ExpectedOutcome(swift_files[k].path, args.exclude_framework,
                            args.exclude_tests)[1]

C20_WarningIffAllExcluded ==
    /\ args.kind # "dir" => ~warned
    /\ (AfterScan /\ args.kind = "dir") =>
           /\ warned <=> EveryCandidateExcluded
           /\ warned =>
                  /\ violations = <<>> /\ exceptions = <<>>
                  /\ Len(exclusions) = Len(swift_files)
                  /\ pc = "exited" => (exit_status = 0 \/ args.json = "fail")
    /\ pc \in {"main", "files"} => ~warned

\* two library files under the default toggle: warned, and status 0
C20_Witness ==
    /\ pc = "exited"
    /\ args.kind = "dir" /\ args.exclude_framework
    /\ Len(swift_files) = 2
    /\ warned
    /\ Len(report.exclusions) = 2
    /\ report.violations = <<>>
    /\ exit_status = 0

(***************************************************************************)
(* C25: while the scan of strip_comments_from_line is inside a string      *)
(* literal and outside any block comment, every step keeps the characters  *)
(* it consumes, leaves the block-comment state alone and ends the scan     *)
(* only at the end of the line, so // does not truncate and /* does not    *)
(* open a comment; outside strings and comments every character that does  *)
(* not start a comment marker is kept verbatim (the code after a closing   *)
(* quote), and // ends the scan with the text before it and with the       *)
(* block-comment state unchanged.                                          *)
(***************************************************************************)
InCode == pc = "scan" /\ ~cs.in_string /\ ~cs.in_multiline

InLiteral == pc = "scan" /\ cs.in_string /\ ~cs.in_multiline

\* the scan is at the two characters s
AtMarker(s) == CharAt(line, cs.i) \o CharAt(line, cs.i + 1) = s

C25_CommentMarkersInertInStrings ==
    /\ [][InLiteral =>
            /\ cs'.in_multiline = cs.in_multiline
            /\ cs'.result = cs.result \o Slice(line, cs.i, cs'.i)
            /\ pc' = "stripped" =>
                    cs.i >= Len(line) /\ stripped' = cs.result /\ ~in_multiline']_vars
    /\ [][InCode /\ cs.i < Len(line) /\ ~AtMarker("//") /\ ~AtMarker("/*") =>
            /\ cs'.in_multiline = cs.in_multiline
            /\ cs'.i = cs.i + 1
            /\ cs'.result = cs.result \o CharAt(line, cs.i)]_vars
    /\ [][InCode /\ AtMarker("//") =>
            /\ pc' = "stripped" => stripped' = cs.result /\ in_multiline' = cs.in_multiline
            /\ cs' = cs]_vars

\* a literal that holds /* was scanned outside a block comment, the code
\* after its closing quote was kept, and no block comment was opened
C25_Witness ==
    /\ pc = "stripped"
    /\ ~in_multiline_comment
    /\ line = DQ \o "/*" \o DQ \o "a"
    /\ stripped = line
    /\ ~in_multiline


(***************************************************************************)
(* C26: the only state carried from one line to the next is the boolean    *)
(* "inside an unterminated block comment".  Between two lines every local  *)
(* of the pipeline is gone; the scan of a line starts at its first         *)
(* character, outside any string literal, with the block-comment state the *)
(* line before returned; a literal still open where the scan of a line     *)
(* stops has run to the end of that line, and its text from the opening    *)
(* quote on is kept; and strip_string_literals_from_line masks the         *)
(* stripped line as a line that starts outside any literal, an             *)
(* unterminated literal reaching to the end of the line.                   *)
(***************************************************************************)
BetweenLines == pc = "idle"

\* the literal open at frame f covers the line from a quote at q to its end
OpenLiteralFrom(q, f, out) ==
    /\ CharAt(line, q) = f.string_char
    /\ Len(out) >= Len(line) - q
    /\ SubSeq(out, Len(out) - (Len(line) - q) + 1, Len(out))
           = Slice(line, q, Len(line))

C26_OnlyBlockStateCarried ==
    /\ [](BetweenLines => lexVars = <<"", FALSE, EntryFrame(FALSE), "", "">>)
    /\ [][BetweenLines /\ pc' = "scan" =>
            /\ cs'.i = 0 /\ cs'.result = ""
            /\ ~cs'.in_string /\ cs'.string_char = None
            /\ cs'.in_multiline = in_multiline
            /\ in_multiline_comment' = in_multiline]_vars
    /\ [][InLiteral /\ pc' = "stripped" =>
            /\ cs.i >= Len(line)
            /\ \E q \in 0..(Len(line) - 1) : OpenLiteralFrom(q, cs, stripped')
            /\ in_multiline' = cs.in_multiline]_vars
    /\ [](pc = "masked" =>
            clean = MaskedFrom(stripped, LiteralMarks(stripped), 0))

\* a line that ends inside a literal holding a comment marker went through
\* both functions: kept whole by the first, masked whole by the second
C26_Witness ==
    /\ pc = "masked" /\ cs.in_string /\ ~in_multiline_comment
    /\ line = "a" \o SQ \o "//"
    /\ stripped = line /\ ~in_multiline
    /\ clean = "a" \o PLACEHOLDER


(***************************************************************************)
(* C27: a block comment that is opened (by the first comment opener of     *)
(* line N, the lines before it and the text before the opener being plain  *)
(* text) and never closed (no closer follows, on line N or on any later    *)
(* line) leaves every later line fully masked: strip_comments_from_lines   *)
(* emits each line after N empty.                                          *)
(***************************************************************************)
C27_UnclosedCommentMasksRest ==
    \A N \in 1..Len(result) :
        \A a \in 0..(Len(lines[N]) - 2) :
            ( /\ \A j \in 1..(N - 1) : Plain(lines[j])
              /\ OpensAt(lines[N], a)
              /\ \A j \in (N + 1)..Len(lines) : ~HasCloser(lines[j]) )
            =>
            \A j \in (N + 1)..Len(result) : result[j] = ""


(***************************************************************************)
(* find_violations_in_file on files whose lines match a rule's primary     *)
(* pattern and one of its exclude patterns, with and without annotations.  *)
(***************************************************************************)
MaxResolveLines == 2

ResolveLines ==
    {"// 6LAYER_ALLOW: ok\n",
     "PlatformImage(uiImage: UIImage()) // 6LAYER_ALLOW:\n",
     "PlatformImage(uiImage: UIImage())\n",
     "TextField(platformTextField(x)) // 6LAYER_ALLOW: ok\n",
     "UIColor.red\n"}

ResolveFiles == UNION {[1..n -> ResolveLines] : n \in 1..MaxResolveLines}

InitResolve ==
    /\ LexIdle
    /\ TransIdle
    /\ MainIdle
    /\ in_multiline = FALSE
    /\ result = <<>>
    /\ \E c \in ScanConfigs :
        /\ file_path = c[1]
        /\ exclude_framework = c[2]
        /\ exclude_tests = c[3]
    /\ disk \in ResolveFiles
    /\ lines = <<>>
    /\ lines_without_comments = <<>>
    /\ lines_without_strings = <<>>
    /\ violations = <<>>
    /\ exclusions = <<>>
    /\ exceptions = <<>>
    /\ rule_idx = 0
    /\ pc = "classify"

SpecResolve == InitResolve /\ [][NextScan]_vars

(***************************************************************************)
(* C28: resolution order, exception before suppression.  For a rule that   *)
(* is applied to the file (the library skip, which comes before the line   *)
(* loop, aside) and a line whose clean text matches the rule's primary     *)
(* pattern and one of its exclude patterns: if the line carries the inline *)
(* annotation with a non-empty reason, or the line above, trimmed, begins  *)
(* with it, exactly one AllowedException and no Finding is recorded for    *)
(* that rule and line.  And for every rule and line the records are one    *)
(* AllowedException, or Findings only, or nothing.                         *)
(***************************************************************************)
AppliedTo(r) == ~(r.library_skip /\ LibraryFile)

C28_ExceptionBeforeSuppression ==
    Scanned =>
        \A n \in 1..Len(lines) : \A r \in Rules :
            /\ ( /\ AppliedTo(r)
                 /\ Matches(r, n) /\ Suppressed(r, n)
                 /\ InlineAnnotated(n) \/ PrecedingAnnotated(n) )
               => Cardinality(ExceptionsAt(r, n)) = 1 /\ FindingsAt(r, n) = {}
            /\ \/ ExceptionsAt(r, n) = {}
               \/ Cardinality(ExceptionsAt(r, n)) = 1 /\ FindingsAt(r, n) = {}


(***************************************************************************)
(* The context check of a view rule.  find_violations_in_file reads        *)
(* requires_context and context_pattern from every view entry, though no   *)
(* entry of the shipped catalog sets them; here the view table holds one   *)
(* entry that does.  The files hold one line that matches the entry's      *)
(* primary pattern, at most one line that holds the context text, in code  *)
(* or in a comment, and empty lines.                                       *)
(***************************************************************************)
MaxContextLines == 12

CONTEXT_RULE ==
    [VIEW_VIOLATIONS[1] EXCEPT !.requires_context = TRUE,
                               !.context_pattern = <<"ctx">>]

ContextTexts == {"ctx\n", "// ctx\n"}

\* L lines, the match on line m, the context text on line c (none if c = 0)
ContextFile(L, m, c, text) ==
    [n \in 1..L |-> IF n = m THEN "TextField(\n"
                    ELSE IF n = c THEN text
                    ELSE "\n"]

ContextFiles ==
    {ContextFile(L, m, c, text) :
        L \in 1..MaxContextLines, m \in 1..MaxContextLines,
        c \in 0..MaxContextLines, text \in ContextTexts}

InitContext ==
    /\ LexIdle
    /\ TransIdle
    /\ MainIdle
    /\ in_multiline = FALSE
    /\ result = <<>>
    /\ file_path = "App/a.swift"
    /\ exclude_framework = TRUE
    /\ exclude_tests = FALSE
    /\ disk \in ContextFiles
    /\ \E m \in 1..Len(disk) : disk[m] = "TextField(\n"
    /\ lines = <<>>
    /\ lines_without_comments = <<>>
    /\ lines_without_strings = <<>>
    /\ violations = <<>>
    /\ exclusions = <<>>
    /\ exceptions = <<>>
    /\ rule_idx = 0
    /\ pc = "classify"

\* the one entry of the view table, over every line
ScanContextRule ==
    /\ pc = "view"
    /\ ~SkipsInFramework(CONTEXT_RULE, file_path)
    /\ LET acc == ViewLinesFrom(CONTEXT_RULE, file_path, lines,
                      lines_without_comments, lines_without_strings, 1,
                      [violations |-> violations, exceptions |-> exceptions])
       IN  /\ violations' = acc.violations
           /\ exceptions' = acc.exceptions
    /\ pc' = "done"
    /\ rule_idx' = 0
    /\ UNCHANGED <<file_path, exclude_framework, exclude_tests, disk, lines,
                   lines_without_comments, lines_without_strings, exclusions>>
    /\ UNCHANGED notScanVars

NextContext ==
    \/ ReadFile
    \/ ReadFails
    \/ ScanPlatformRule
    \/ ScanContextRule

SpecContext == InitContext /\ [][NextContext]_vars

(***************************************************************************)
(* C29: for a tier-2 rule that requires nearby context, the context        *)
(* pattern is searched in a window symmetric around the match line: the    *)
(* same number N of comment-stripped lines above and below it (N = 10, the *)
(* distance the code subtracts from and adds to the line number), clipped  *)
(* at the first and the last line of the file; the candidate is discarded  *)
(* exactly when the pattern occurs on no line of that window.              *)
(***************************************************************************)
\* the context pattern occurs on a line at most N lines from line n
InWindow(N, n) ==
    \E j \in Max(1, n - N)..Min(Len(lines), n + N) :
        re_search(CONTEXT_RULE.context_pattern, lines_without_comments[j])

SymmetricWindow(N) ==
    Scanned =>
        \A n \in 1..Len(lines) :
            re_search(CONTEXT_RULE.pattern, lines_without_strings[n]) =>
                /\ exceptions = <<>>
                /\ FindingsAt(CONTEXT_RULE, n) = {} <=> ~InWindow(N, n)

AfterFirstCloser(s) == Slice(s, FirstCloser(s) + 2, Len(s))

C30_BlockCommentsDoNotNest ==
    /\ [](Returned /\ in_multiline_comment /\ HasCloser(line) =>
            <<stripped, in_multiline>> =
                strip_comments_from_line(AfterFirstCloser(line), FALSE))
    /\ [][InCode /\ AtMarker("*/") =>
            /\ cs'.result = cs.result \o "*"
            /\ cs'.i = cs.i + 1
            /\ ~cs'.in_multiline /\ ~cs'.in_string
            /\ pc' = "scan"]_vars

=============================================================================
